---- MODULE Spec2Model ----
(***************************************************************************)
(* Model of the B3 ingestion pipeline (src/ingestor.py) and of the         *)
(* standalone uploader (src/scripts/s3_uploader.py):                       *)
(*   - _to_tidy / _detect_ticker_level: the normalisation of a yfinance    *)
(*     frame into the 8-column tidy frame, as a pure operator ToTidy;      *)
(*   - ingest: grouping by calendar day, _write_parquet_atomic step by     *)
(*     step (truncate temp, append bytes, magic checks, rename), upload;   *)
(*   - _upload_s3_checked: the bounded retry loop around upload_file and   *)
(*     head_object.                                                        *)
(* Time is counted in whole hours since 2026-01-16 00:00; numbers are      *)
(* counted in tenths (15 is 1.5) so that the float -> int64 cast has       *)
(* something to truncate.                                                  *)
(***************************************************************************)
EXTENDS Integers, Sequences, FiniteSets, TLC

VARIABLES
    df,         \* the frame handed to _to_tidy / returned by yf.download
    tickers,    \* the requested ticker list
    tidy,       \* the value returned by _to_tidy (or the exception it raised)
    pc,         \* where the modelled call stands
    cfg,        \* ingest's arguments and the modules the process could import
    groups,     \* tidy.groupby("trade_day", sort=True): <<[dt, rows], ...>>
    cur,        \* the position of the for loop in groups
    fs,         \* the local filesystem: path -> bytes (paths absent are not in DOMAIN)
    wimg,       \* the bytes pq.write_table is in the course of writing
    err,        \* the exception that ended the call, NoError if none
    processed,  \* ingest's counter of partitions done
    log,        \* the "Local OK"/"Temp file written" lines: <<[path, rows], ...>>
    remote,     \* the bucket: key -> bytes
    up,         \* _upload_s3_checked's arguments and locals
    calls,      \* the calls the current upload made on the s3 client, with their outcomes
    slept,      \* seconds the current upload spent in time.sleep
    down,       \* _download_s3_checked's arguments and locals
    args,       \* the command line of ingestor.py and the S3_BUCKET variable
    exit,       \* the exit status of the command, NoExit while it runs
    race,       \* concurrent calls of _write_parquet_atomic: run -> its position and open file
    rd,         \* read_refined.py: the files and filters given, and what the calls returned
    mnt         \* compress_refined.py / fix_refined_columns.py: one run of main

tidyVars == <<df, tickers, tidy>>
ingestVars == <<cfg, groups, cur, processed, log>>
uploadVars == <<remote, up, calls, slept>>
\* the state of the other entry points: the downloader, the command line,
\* concurrent writers
extVars == <<down, args, exit, race, rd, mnt>>
vars == <<df, tickers, tidy, pc, cfg, groups, cur, fs, wimg, err, processed, log,
          remote, up, calls, slept, down, args, exit, race, rd, mnt>>

(***************************************************************************)
(* Generic helpers on sequences.                                           *)
(***************************************************************************)
Range(s) == {s[i] : i \in 1..Len(s)}

RECURSIVE Uniq(_)
\* the distinct values of s in order of first appearance (Index.unique())
Uniq(s) ==
    IF s = <<>> THEN <<>>
    ELSE LET r == Uniq(SubSeq(s, 1, Len(s) - 1))
             x == s[Len(s)]
         IN IF x \in Range(r) THEN r ELSE Append(r, x)

RECURSIVE Flatten(_)
Flatten(ss) == IF ss = <<>> THEN <<>> ELSE Head(ss) \o Flatten(Tail(ss))

\* the positions of s that hold x, ascending
Positions(s, x) == {i \in 1..Len(s) : s[i] = x}

RECURSIVE SetToSeq(_)
\* ascending enumeration of a finite set of integers
SetToSeq(S) ==
    IF S = {} THEN <<>>
    ELSE LET m == CHOOSE a \in S : \A b \in S : a <= b
         IN <<m>> \o SetToSeq(S \ {m})

(***************************************************************************)
(* Cells.  One record shape for every value a frame can hold:              *)
(*   num  : a float, v in tenths          int : an int64, v in units       *)
(*   str  : a Python str s                null: None / NaN / pd.NA / NaT   *)
(*   ts   : a naive timestamp, v hours    tsz : an aware timestamp, v the  *)
(*   inf  : the float inf                        wall clock hours at UTC   *)
(*                                               offset off                *)
(***************************************************************************)
Num(n)    == [k |-> "num",  v |-> n, s |-> "", off |-> 0]
Int64(n)  == [k |-> "int",  v |-> n, s |-> "", off |-> 0]
Str(x)    == [k |-> "str",  v |-> 0, s |-> x,  off |-> 0]
Null      == [k |-> "null", v |-> 0, s |-> "", off |-> 0]
Ts(h)     == [k |-> "ts",   v |-> h, s |-> "", off |-> 0]
Tsz(h, o) == [k |-> "tsz",  v |-> h, s |-> "", off |-> o]
Inf       == [k |-> "inf",  v |-> 0, s |-> "", off |-> 0]

(***************************************************************************)
(* String functions of the code, tabulated on the labels the model uses.   *)
(***************************************************************************)
StripLowerTable ==
    { <<"Open", "open">>, <<"High", "high">>, <<"Low", "low">>,
      <<"Close", "close">>, <<"Adj Close", "adj close">>,
      <<"Volume", "volume">>, <<" Volume ", "volume">>, <<"CLOSE", "close">>,
      <<"Date", "date">>, <<"Dividends", "dividends">>,
      <<"VALE3.SA", "vale3.sa">>, <<"PETR4.SA", "petr4.sa">>,
      <<"ITUB4.SA", "itub4.sa">>, <<"UNKNOWN", "unknown">> }

\* str(c).strip().lower()
StripLower(s) ==
    IF \E p \in StripLowerTable : p[1] = s
    THEN (CHOOSE p \in StripLowerTable : p[1] = s)[2]
    ELSE s

UpperTable ==
    { <<"Open", "OPEN">>, <<"High", "HIGH">>, <<"Low", "LOW">>,
      <<"Close", "CLOSE">>, <<"close", "CLOSE">>, <<"Adj Close", "ADJ CLOSE">>,
      <<"adj_close", "ADJ_CLOSE">>, <<"Volume", "VOLUME">>,
      <<" Volume ", " VOLUME ">>, <<"Dividends", "DIVIDENDS">>,
      <<"vale3.sa", "VALE3.SA">>, <<"petr4.sa", "PETR4.SA">>,
      <<"low", "LOW">> }

\* str(x).upper()
Upper(s) ==
    IF \E p \in UpperTable : p[1] = s
    THEN (CHOOSE p \in UpperTable : p[1] = s)[2]
    ELSE s

COL_RENAME_KEYS == {"open", "high", "low", "close", "adj close", "adj_close", "volume"}

COL_RENAME(key) == IF key = "adj close" THEN "adj_close" ELSE key

expected == << "trade_date", "ticker", "open", "high", "low", "close", "adj_close", "volume" >>

\* float(s) as pd.to_numeric applies it to a str cell: the value in tenths,
\* or Null when the text is no number
ParseNumTable == { <<"100", 1000>>, <<"1.5", 15>>, <<"-7", -70>> }

ParseNum(s) ==
    IF s = "inf" THEN Inf
    ELSE IF \E p \in ParseNumTable : p[1] = s
    THEN Num((CHOOSE p \in ParseNumTable : p[1] = s)[2])
    ELSE Null

(***************************************************************************)
(* Frames.  A pandas DataFrame is                                          *)
(*   raised  : "" or the exception the call ended with (results only)      *)
(*   idxName : df.index.name, "" for None                                  *)
(*   tz      : df.index.tz, [aware, off]: off is the UTC offset in hours   *)
(*   index   : the index values, Ts(wall clock) or Null (NaT)              *)
(*   columns : the column labels, each a tuple of strings: one string for  *)
(*             flat columns, two for a two-level MultiIndex                *)
(*   data    : the rows, each a sequence of cells in column order          *)
(***************************************************************************)
Naive == [aware |-> FALSE, off |-> 0]
Aware(o) == [aware |-> TRUE, off |-> o]

Frame(idxName, tz, index, columns, data) ==
    [raised |-> "", idxName |-> idxName, tz |-> tz, index |-> index,
     columns |-> columns, data |-> data]

Raised(e) ==
    [raised |-> e, idxName |-> "", tz |-> Naive, index |-> <<>>,
     columns |-> <<>>, data |-> <<>>]

\* a RangeIndex 0..n-1, what reset_index leaves behind
RangeIndex(n) == [i \in 1..n |-> Int64(i - 1)]

\* a test that takes every frame to have rows
EmptyNever(f) == FALSE

\* df.empty: any axis of length 0
Empty(f) == Len(f.index) = 0 \/ Len(f.columns) = 0

\* isinstance(df.columns, pd.MultiIndex) and df.columns.nlevels == 2
IsMulti(f) == Len(f.columns) > 0 /\ \A j \in 1..Len(f.columns) : Len(f.columns[j]) = 2

\* _detect_ticker_level: which level (0 or 1) of the columns holds the tickers
DetectTickerLevel(cols, tks) ==
    LET tset == {Upper(t) : t \in Range(tks)}
        lvl0 == {Upper(c[1]) : c \in Range(cols)}
        lvl1 == {Upper(c[2]) : c \in Range(cols)}
    IN  IF Cardinality(tset \cap lvl0) >= Cardinality(tset) \div 2 THEN 0
        ELSE IF Cardinality(tset \cap lvl1) >= Cardinality(tset) \div 2 THEN 1
        ELSE 0

\* df.columns.swaplevel(0, 1)
SwapLevel(cols) == [j \in 1..Len(cols) |-> <<cols[j][2], cols[j][1]>>]

\* idx = pd.to_datetime(df.index); tz_convert("UTC") when the index is aware:
\* the same instants, shown on the UTC wall clock
IndexToUTC(f) ==
    IF f.tz.aware
    THEN [f EXCEPT !.tz = Aware(0),
                   !.index = [i \in 1..Len(f.index) |->
                                IF f.index[i].k = "null" THEN Null
                                ELSE Ts(f.index[i].v - f.tz.off)]]
    ELSE f

\* the index as a column of cells, as reset_index inserts it
IndexCell(f, i) ==
    IF f.index[i].k = "null" THEN Null
    ELSE IF f.tz.aware THEN Tsz(f.index[i].v, f.tz.off) ELSE Ts(f.index[i].v)

\* df.stack(level=0, future_stack=True), index names set, reset_index():
\* one row per (index value, level-0 value), one column per level-1 value,
\* both in order of first appearance; a missing (l0, l1) pair is NaN
StackLevel0(f) ==
    LET l0s == Uniq([j \in 1..Len(f.columns) |-> f.columns[j][1]])
        l1s == Uniq([j \in 1..Len(f.columns) |-> f.columns[j][2]])
        At(i, a, b) ==
            IF \E j \in 1..Len(f.columns) : f.columns[j] = <<a, b>>
            THEN f.data[i][CHOOSE j \in 1..Len(f.columns) : f.columns[j] = <<a, b>>]
            ELSE Null
        Row(i, x) == <<IndexCell(f, i), Str(l0s[x])>>
                     \o [y \in 1..Len(l1s) |-> At(i, l0s[x], l1s[y])]
    IN  [columns |-> <<"trade_date", "ticker">> \o l1s,
         data |-> Flatten([i \in 1..Len(f.index) |->
                             [x \in 1..Len(l0s) |-> Row(i, x)]])]

\* the name reset_index gives the column made from an unnamed/named index
ResetIndexName(f) ==
    IF f.idxName # "" THEN f.idxName
    ELSE IF <<"index">> \in Range(f.columns) THEN "level_0" ELSE "index"

\* df.reset_index().rename(columns={"index": "trade_date"}); insert(1, "ticker", only)
ResetIndexFlat(f, only) ==
    LET first == ResetIndexName(f)
        named == [j \in 1..Len(f.columns) |->
                    IF f.columns[j][1] = "index" THEN "trade_date" ELSE f.columns[j][1]]
    IN  [columns |-> <<IF first = "index" THEN "trade_date" ELSE first, "ticker">> \o named,
         data |-> [i \in 1..Len(f.index) |->
                     <<IndexCell(f, i), Str(only)>> \o f.data[i]]]

\* tidy.columns = [str(c).strip().lower() ...]; rename through COL_RENAME
NormalizeColumns(cols) ==
    [j \in 1..Len(cols) |->
        LET key == StripLower(cols[j])
        IN IF key \in COL_RENAME_KEYS THEN COL_RENAME(key) ELSE key]

\* for c in expected: if c not in tidy.columns: tidy[c] = pd.NA
AddMissing(t) ==
    LET missing == SelectSeq(expected, LAMBDA c : c \notin Range(t.columns))
    IN  [columns |-> t.columns \o missing,
         data |-> [i \in 1..Len(t.data) |->
                     t.data[i] \o [m \in 1..Len(missing) |-> Null]]]

\* tidy = tidy[expected]: for each expected label, every column that carries it
SelectExpected(t) ==
    LET pos == Flatten([e \in 1..Len(expected) |->
                          SetToSeq(Positions(t.columns, expected[e]))])
    IN  [columns |-> [p \in 1..Len(pos) |-> t.columns[pos[p]]],
         data |-> [i \in 1..Len(t.data) |->
                     [p \in 1..Len(pos) |-> t.data[i][pos[p]]]]]

\* position of the (first) column labelled c
ColPos(t, c) == CHOOSE p \in 1..Len(t.columns) :
                    t.columns[p] = c /\ \A q \in 1..(p - 1) : t.columns[q] # c

\* pd.to_datetime(series, errors="coerce") on one cell
ToDatetimeCoerce(c) == IF c.k \in {"ts", "tsz"} THEN c ELSE Null

\* .dt.tz_convert("UTC").dt.tz_localize(None) on one cell of an aware column
ToNaiveUTC(c) == IF c.k = "tsz" THEN Ts(c.v - c.off) ELSE c

\* pd.to_numeric(series, errors="coerce") on one cell: a float or NaN
ToNumericCoerce(c) ==
    CASE c.k \in {"num", "inf"} -> c
      [] c.k = "int" -> Num(c.v * 10)
      [] c.k = "str" -> ParseNum(c.s)
      [] OTHER -> Null

\* the float -> int64 cast of astype("int64"): truncation toward zero
TruncToInt(tenths) == IF tenths >= 0 THEN tenths \div 10 ELSE -((-tenths) \div 10)

\* the volume cast without fillna(0)
VolumeCellNoFill(c) ==
    LET n == ToNumericCoerce(c)
    IN IF n.k = "null" THEN Null ELSE Int64(TruncToInt(n.v))

\* vol = pd.to_numeric(..., errors="coerce"); vol.fillna(0).astype("int64")
VolumeCell(c) ==
    LET n == ToNumericCoerce(c)
    IN IF n.k = "null" THEN Int64(0) ELSE Int64(TruncToInt(n.v))

\* tidy["ticker"].astype(str)
TickerCell(c) == IF c.k = "str" THEN c ELSE Str("nan")

FloatColumns == {"open", "high", "low", "close", "adj_close"}

\* lines 140-166: the dtype coercions, column by column.  A label carried
\* by two columns makes tidy[c] a DataFrame, which pd.to_numeric rejects.
CoerceTypes(t, aware) ==
    LET dup == \E c \in FloatColumns \cup {"volume"} :
                  Cardinality(Positions(t.columns, c)) > 1
        \* astype("int64") rejects a column that still holds inf
        nonfinite == \E i \in 1..Len(t.data) :
                        ToNumericCoerce(t.data[i][ColPos(t, "volume")]).k = "inf"
        Conv(c, x) ==
            CASE c = "trade_date" ->
                    (IF aware THEN ToNaiveUTC(ToDatetimeCoerce(x))
                              ELSE ToDatetimeCoerce(x))
              [] c = "ticker" -> TickerCell(x)
              [] c \in FloatColumns -> ToNumericCoerce(x)
              [] c = "volume" -> VolumeCell(x)
              [] OTHER -> x
    IN  IF dup THEN Raised("TypeError")
        ELSE IF nonfinite THEN Raised("IntCastingNaNError")
        ELSE [raised |-> "", idxName |-> "", tz |-> Naive,
              index |-> RangeIndex(Len(t.data)),
              columns |-> [p \in 1..Len(t.columns) |-> <<t.columns[p]>>],
              data |-> [i \in 1..Len(t.data) |->
                          [p \in 1..Len(t.columns) |-> Conv(t.columns[p], t.data[i][p])]]]

\* _to_tidy(df, tickers)
ToTidy(f, tks) ==
    IF Empty(f) THEN f
    ELSE
    LET g == IndexToUTC(f)
        only == IF Len(tks) > 0 THEN tks[1] ELSE "UNKNOWN"
        shaped ==
            IF IsMulti(g)
            THEN StackLevel0(IF DetectTickerLevel(g.columns, tks) = 1
                             THEN [g EXCEPT !.columns = SwapLevel(g.columns)]
                             ELSE g)
            ELSE ResetIndexFlat(g, only)
        renamed == [shaped EXCEPT !.columns = NormalizeColumns(shaped.columns)]
        \* the trade_date column is aware iff it is the (aware) index itself
        aware == g.tz.aware /\ "trade_date" \in Range(renamed.columns)
        picked == SelectExpected(AddMissing(renamed))
    IN  CoerceTypes(picked, aware)

(***************************************************************************)
(* The frames the normalisation is exercised on.                           *)
(***************************************************************************)
MaxRows == 2

\* wall-clock hours since 2026-01-16 00:00: 10:00 and 23:00 of the 16th,
\* 23:00 of the 17th
Clocks == {10, 23, 47}

IndexValues == {Ts(h) : h \in Clocks} \cup {Null}

Indexes == UNION {[1..n -> IndexValues] : n \in 0..MaxRows}

\* America/Sao_Paulo is UTC-3; Asia/Tokyo is UTC+9
Zones == {Naive, Aware(-3), Aware(9)}

\* yfinance names its index "Date"/"Datetime"; a hand-built frame has none
IndexNames == {"", "Date"}

TickerLists ==
    { <<>>, <<"VALE3.SA">>, <<"vale3.sa", "PETR4.SA">>,
      <<"VALE3.SA", "PETR4.SA", "ITUB4.SA">> }

\* the volume cells a source can hold: ints, floats, numeric and other text,
\* missing values
VolumeValues ==
    << Int64(100), Int64(0), Num(15), Num(-5), Int64(-5), Null, Str("n/a"), Str("100"),
       Str("inf") >>

\* row i of a frame whose first volume cell is VolumeValues[v]
VolumeAt(v, i) == VolumeValues[((v + i - 2) % Len(VolumeValues)) + 1]

IsVolumeLabel(l) == StripLower(l) = "volume"

\* a price that differs for every (row, ticker, field) position
PriceAt(i, k, j) == Num(1000 * i + 100 * k + 10 * j)

FlatColumnLists ==
    { <<"Open", "High", "Low", "Close", "Adj Close", "Volume">>,
      <<"Close", " Volume ">>,
      <<"Open", "adj_close", "Dividends">>,
      <<"Close", "CLOSE", "Volume">>,
      <<"Adj Close", "adj_close", "Volume">>,
      <<"Volume", " Volume ">> }

FlatFrame(name, tz, idx, cols, v) ==
    Frame(name, tz, idx,
          [j \in 1..Len(cols) |-> <<cols[j]>>],
          [i \in 1..Len(idx) |->
             [j \in 1..Len(cols) |->
                IF IsVolumeLabel(cols[j]) THEN VolumeAt(v, i)
                ELSE PriceAt(i, 1, j)]])

FlatSources ==
    { FlatFrame(name, tz, idx, cols, v) :
        name \in IndexNames, tz \in Zones, idx \in Indexes,
        cols \in FlatColumnLists, v \in 1..Len(VolumeValues) }

TableTickers == { <<"VALE3.SA">>, <<"VALE3.SA", "PETR4.SA">> }

MultiFieldLists ==
    { <<"Open", "Volume">>, <<"Close", "Adj Close">>, <<"Close", "CLOSE", "Volume">> }

\* the (ticker, field) pairs of a wide frame, grouped by ticker or by field
PairsOf(tk, fl, byTicker) ==
    IF byTicker
    THEN Flatten([k \in 1..Len(tk) |-> [j \in 1..Len(fl) |-> <<k, j>>]])
    ELSE Flatten([j \in 1..Len(fl) |-> [k \in 1..Len(tk) |-> <<k, j>>]])

\* tickerLevel is the column level (0 or 1) that holds the tickers
MultiFrame(tz, idx, tk, fl, byTicker, tickerLevel, v) ==
    LET pairs == PairsOf(tk, fl, byTicker)
    IN Frame("Date", tz, idx,
             [p \in 1..Len(pairs) |->
                IF tickerLevel = 0 THEN <<tk[pairs[p][1]], fl[pairs[p][2]]>>
                ELSE <<fl[pairs[p][2]], tk[pairs[p][1]]>>],
             [i \in 1..Len(idx) |->
                [p \in 1..Len(pairs) |->
                   IF IsVolumeLabel(fl[pairs[p][2]])
                   THEN VolumeAt(v, i + pairs[p][1] - 1)
                   ELSE PriceAt(i, pairs[p][1], pairs[p][2])]])

MultiSources ==
    { MultiFrame(tz, idx, tk, fl, byTicker, lvl, v) :
        tz \in Zones, idx \in Indexes, tk \in TableTickers,
        fl \in MultiFieldLists, byTicker \in BOOLEAN, lvl \in {0, 1},
        v \in 1..Len(VolumeValues) }

Sources == FlatSources \cup MultiSources

NotCalled == Frame("", Naive, <<>>, <<>>, <<>>)

(***************************************************************************)
(* Paths and partition keys.                                               *)
(***************************************************************************)
\* trade_date.dt.strftime("%Y-%m-%d") of hour h: the calendar day it falls on
DayOf(h) == h \div 24

DayStrTable ==
    { <<-1, "2026-01-15">>, <<0, "2026-01-16">>, <<1, "2026-01-17">>,
      <<2, "2026-01-18">>, <<3, "2026-01-19">> }

DayStr(d) == (CHOOSE p \in DayStrTable : p[1] = d)[2]

RStripSlashTable ==
    { <<"raw/", "raw">>, <<"raw//", "raw">>, <<"/", "">>, <<"/raw/", "/raw">> }

\* s3_prefix.rstrip('/')
RStripSlash(s) ==
    IF \E p \in RStripSlashTable : p[1] = s
    THEN (CHOOSE p \in RStripSlashTable : p[1] = s)[2]
    ELSE s

\* key = f"{s3_prefix.rstrip('/')}/dt={dt}/b3_stocks.parquet"
KeyOf(prefix, d) == RStripSlash(prefix) \o "/dt=" \o DayStr(d) \o "/b3_stocks.parquet"

\* a path that starts with "/": pathlib's "/" operator then drops the left operand
IsAbsoluteKey(prefix) == RStripSlash(prefix) \in {"", "/raw"}

\* local_path = out_dir / key, as [dir, name]
LocalPathOf(out_dir, prefix, d) ==
    [dir  |-> IF IsAbsoluteKey(prefix)
              THEN RStripSlash(prefix) \o "/dt=" \o DayStr(d)
              ELSE out_dir \o "/" \o RStripSlash(prefix) \o "/dt=" \o DayStr(d),
     name |-> "b3_stocks.parquet"]

\* the name without its last suffix (Path.stem)
Stem(name) ==
    CASE name = "b3_stocks.parquet" -> "b3_stocks"
      [] name = "b3.parquet" -> "b3"
      [] OTHER -> name

\* a writer that writes at out_path itself
WithSuffixInPlace(path, suffix) == path

\* out_path.with_suffix(suffix)
WithSuffix(path, suffix) == [path EXCEPT !.name = Stem(path.name) \o suffix]

\* tmp = out_path.with_suffix(".parquet.tmp")
TmpPathOf(path) == WithSuffix(path, ".parquet.tmp")

(***************************************************************************)
(* File contents.  A file is a sequence of elements: single bytes, and     *)
(* the blocks that hold one serialised row each.                           *)
(***************************************************************************)
Byte(b) == [byte |-> b, row |-> <<>>]
RowBlock(r) == [byte |-> -1, row |-> r]

\* b"PAR1"
Magic == <<Byte(80), Byte(65), Byte(82), Byte(49)>>

\* what pq.write_table writes for a group of rows
Encode(rows) == Magic \o [i \in 1..Len(rows) |-> RowBlock(rows[i])] \o Magic

\* the rows a file holds
RowsOf(bytes) ==
    LET blocks == SelectSeq(bytes, LAMBDA e : e.byte = -1)
    IN [i \in 1..Len(blocks) |-> blocks[i].row]

\* what can end up in the temp file when write_table returns: the table, or
\* a file damaged at the head, at the tail, or cut short
WriterImages(rows) ==
    LET good == Encode(rows)
    IN { good,
         [good EXCEPT ![1] = Byte(0)],
         SubSeq(good, 1, Len(good) - 1),
         <<Byte(80), Byte(65)>> }

\* f.read(4) from the start of the file
ReadHead4(bytes) == SubSeq(bytes, 1, IF Len(bytes) < 4 THEN Len(bytes) ELSE 4)

\* f.seek(-4, 2); f.read(4)
ReadTail4(bytes) == SubSeq(bytes, Len(bytes) - 3, Len(bytes))

\* a file left by an earlier run at a partition's target path
PriorFile == Encode(<< <<Ts(0), Str("OLD"), Null, Null, Null, Null, Null, Int64(1)>> >>)

\* bytes left in a temp file by an earlier run that died while writing
LeftoverTmp == <<Byte(80), Byte(65), Byte(82)>>

HasFile(files, path) == path \in DOMAIN files

WriteFile(files, path, bytes) ==
    [q \in DOMAIN files \cup {path} |-> IF q = path THEN bytes ELSE files[q]]

RemoveFile(files, path) == [q \in DOMAIN files \ {path} |-> files[q]]

\* tmp.replace(out_path): an atomic rename over the target
ReplaceFile(files, src, dst) ==
    [q \in (DOMAIN files \ {src}) \cup {dst} |-> IF q = dst THEN files[src] ELSE files[q]]

NoFiles == [q \in {} |-> <<>>]

NoError == [type |-> "", msg |-> ""]
Error(type, msg) == [type |-> type, msg |-> msg]

(***************************************************************************)
(* ingest: lines 360-408.                                                  *)
(***************************************************************************)
\* the value of trade_date.dt.strftime("%Y-%m-%d") for a tidy row, as a day
\* number; NaT formats to NaN, which groupby drops
RowHasDay(t, r) == r[ColPos(t, <<"trade_date">>)].k = "ts"
RowDay(t, r) == DayOf(r[ColPos(t, <<"trade_date">>)].v)

\* a grouping that hands every dated row to every day
GroupByDayUnfiltered(t) ==
    LET days == {RowDay(t, t.data[i]) : i \in {j \in 1..Len(t.data) : RowHasDay(t, t.data[j])}}
        keys == SetToSeq(days)
    IN [g \in 1..Len(keys) |->
          [dt |-> keys[g],
           rows |-> SelectSeq(t.data, LAMBDA r : RowHasDay(t, r))]]

\* a grouping that walks the days from the latest to the earliest
GroupByDayDescending(t) ==
    LET days == {RowDay(t, t.data[i]) : i \in {j \in 1..Len(t.data) : RowHasDay(t, t.data[j])}}
        keys == SetToSeq(days)
        n == Len(keys)
    IN [g \in 1..n |->
          [dt |-> keys[n + 1 - g],
           rows |-> SelectSeq(t.data, LAMBDA r : RowHasDay(t, r) /\ RowDay(t, r) = keys[n + 1 - g])]]

\* tidy.groupby("trade_day", sort=True): ascending keys, rows in frame order.
\* Zero-padded ISO dates sort as their day numbers do.
GroupByDay(t) ==
    LET days == {RowDay(t, t.data[i]) : i \in {j \in 1..Len(t.data) : RowHasDay(t, t.data[j])}}
        keys == SetToSeq(days)
    IN [g \in 1..Len(keys) |->
          [dt |-> keys[g],
           rows |-> SelectSeq(t.data, LAMBDA r : RowHasDay(t, r) /\ RowDay(t, r) = keys[g])]]

CurKey == KeyOf(cfg.s3_prefix, groups[cur].dt)
CurPath == LocalPathOf(cfg.out_dir, cfg.s3_prefix, groups[cur].dt)
CurTmp == TmpPathOf(CurPath)

NoUpload == [bucket |-> "", key |-> "", local |-> [dir |-> "", name |-> ""],
             size |-> 0, attempt |-> 0]

\* an exception that is recorded while the loop goes on
RaiseSwallowed(e) ==
    /\ err' = e
    /\ pc' = "loop"

\* the exception propagates out of ingest
Raise(e) ==
    /\ err' = e
    /\ pc' = "raised"

\* lines 353-362: yf.download returns df, or raises, and an empty result ends the run
IngestDownload ==
    /\ pc = "ingest"
    /\ \/ /\ Raise(Error("RuntimeError", "failed to download data from yfinance"))
       \/ /\ Empty(df)
          /\ pc' = "done"
          /\ err' = err
       \/ /\ ~Empty(df)
          /\ pc' = "normalize"
          /\ err' = err
    /\ UNCHANGED <<tidyVars, ingestVars, fs, wimg, uploadVars>>
    /\ UNCHANGED extVars

\* lines 364-367: tidy = _to_tidy(df, tickers); an empty tidy frame ends the run
IngestNormalize ==
    /\ pc = "normalize"
    /\ tidy' = ToTidy(df, tickers)
    /\ IF tidy'.raised # "" THEN Raise(Error(tidy'.raised, "_to_tidy"))
       ELSE /\ pc' = IF Empty(tidy') THEN "done" ELSE "client"
            /\ err' = err
    /\ UNCHANGED <<df, tickers, ingestVars, fs, wimg, uploadVars>>
    /\ UNCHANGED extVars

\* lines 372-380: the bucket check, then the groups the loop will walk
IngestGroup ==
    /\ pc = "client"
    /\ IF cfg.upload_to_s3 /\ cfg.s3_bucket = ""
       THEN /\ Raise(Error("RuntimeError", "S3_BUCKET not set."))
            /\ UNCHANGED groups
       ELSE /\ groups' = GroupByDay(tidy)
            /\ pc' = "loop"
            /\ err' = err
    /\ UNCHANGED <<tidyVars, cfg, cur, processed, log, fs, wimg, uploadVars>>
    /\ UNCHANGED extVars

\* line 380: the next group, or line 408 when there is none
IngestLoop ==
    /\ pc = "loop"
    /\ IF cur < Len(groups)
       THEN /\ cur' = cur + 1
            /\ pc' = "write"
       ELSE /\ pc' = "done"
            /\ UNCHANGED cur
    /\ UNCHANGED <<tidyVars, cfg, groups, processed, log, fs, wimg, err, uploadVars>>
    /\ UNCHANGED extVars

(***************************************************************************)
(* _write_parquet_atomic(to_write, local_path): lines 230-271.             *)
(***************************************************************************)
\* lines 231-236: mkdir, then the pyarrow check
WriteBegin ==
    /\ pc = "write"
    /\ IF cfg.pyarrow
       THEN /\ pc' = "write_table"
            /\ err' = err
       ELSE Raise(Error("RuntimeError", "pyarrow is required to write Parquet files"))
    /\ UNCHANGED <<tidyVars, ingestVars, fs, wimg, uploadVars>>
    /\ UNCHANGED extVars

\* line 251: write_table opens the temp file, truncating what was there
WriteOpenAt(path) ==
    /\ pc = "write_table"
    /\ \E img \in WriterImages(groups[cur].rows) : wimg' = img
    /\ fs' = WriteFile(fs, path, <<>>)
    /\ pc' = "writing"
    /\ UNCHANGED <<tidyVars, ingestVars, err, uploadVars>>
    /\ UNCHANGED extVars

WriteOpen == WriteOpenAt(CurTmp)

\* line 251, going on: one more element reaches the temp file
WriteChunkAt(path) ==
    /\ pc = "writing"
    /\ Len(fs[path]) < Len(wimg)
    /\ fs' = WriteFile(fs, path, Append(fs[path], wimg[Len(fs[path]) + 1]))
    /\ UNCHANGED <<tidyVars, ingestVars, pc, wimg, err, uploadVars>>
    /\ UNCHANGED extVars

WriteChunk == WriteChunkAt(CurTmp)

\* line 251: write_table returns
WriteClose ==
    /\ pc = "writing"
    /\ Len(fs[CurTmp]) = Len(wimg)
    /\ pc' = "check_magic"
    /\ UNCHANGED <<tidyVars, ingestVars, fs, wimg, err, uploadVars>>
    /\ UNCHANGED extVars

\* line 251: write_table raises (disk full, I/O error) with the file half written
WriteFail ==
    /\ pc = "writing"
    /\ Len(fs[CurTmp]) < Len(wimg)
    /\ Raise(Error("OSError", "write_table"))
    /\ UNCHANGED <<tidyVars, ingestVars, fs, wimg, uploadVars>>
    /\ UNCHANGED extVars

\* lines 262-264
CheckMagic ==
    /\ pc = "check_magic"
    /\ IF ReadHead4(fs[CurTmp]) # Magic
       THEN Raise(Error("RuntimeError", "parquet-magic-missing"))
       ELSE /\ pc' = "check_footer"
            /\ err' = err
    /\ UNCHANGED <<tidyVars, ingestVars, fs, wimg, uploadVars>>
    /\ UNCHANGED extVars

CheckFooterSkipped ==
    /\ pc' = "replace"
    /\ err' = err

\* lines 266-269
CheckFooterResult ==
    IF ReadTail4(fs[CurTmp]) # Magic
    THEN Raise(Error("RuntimeError", "parquet-footer-magic-missing"))
    ELSE /\ pc' = "replace"
         /\ err' = err

CheckFooter ==
    /\ pc = "check_footer"
    /\ CheckFooterResult
    /\ UNCHANGED <<tidyVars, ingestVars, fs, wimg, uploadVars>>
    /\ UNCHANGED extVars

\* line 271: tmp.replace(out_path), then ingest's log line (lines 392-395)
Replace ==
    /\ pc = "replace"
    /\ fs' = ReplaceFile(fs, CurTmp, CurPath)
    /\ log' = Append(log, [path |-> CurPath, rows |-> Len(groups[cur].rows)])
    /\ pc' = "written"
    /\ UNCHANGED <<tidyVars, cfg, groups, cur, processed, wimg, err, uploadVars>>
    /\ UNCHANGED extVars

\* the process dies (kill, power loss) at any point of the run
Crash ==
    /\ pc \in {"normalize", "client", "loop", "write", "write_table", "writing",
               "check_magic", "check_footer", "replace", "written",
               "upload", "upload_file", "head_object", "uploaded"}
    /\ pc' = "crashed"
    /\ UNCHANGED <<tidyVars, ingestVars, fs, wimg, err, uploadVars>>
    /\ UNCHANGED extVars

\* lines 397-398: with upload_to_s3 the upload is called; without it the
\* partition is done (line 406)
IngestAfterWrite ==
    /\ pc = "written"
    /\ IF cfg.upload_to_s3
       THEN /\ up' = [bucket |-> cfg.s3_bucket, key |-> CurKey, local |-> CurPath,
                      size |-> 0, attempt |-> 0]
            /\ pc' = "upload"
            /\ UNCHANGED <<processed, calls, slept>>
       ELSE /\ processed' = processed + 1
            /\ pc' = "loop"
            /\ UNCHANGED <<up, calls, slept>>
    /\ UNCHANGED <<tidyVars, cfg, groups, cur, log, fs, wimg, err, remote>>
    /\ UNCHANGED extVars

(***************************************************************************)
(* _upload_s3_checked(s3, bucket, key, local_path, retries=3):             *)
(* src/ingestor.py lines 274-304, src/scripts/s3_uploader.py lines 60-101. *)
(***************************************************************************)
RETRIES == 3

\* what a call on the s3 client can do: return, or raise a ClientError with
\* an error code, or raise something else
Returned == [exc |-> "", code |-> ""]
ClientError(code) == [exc |-> "ClientError", code |-> code]
OtherError(name) == [exc |-> name, code |-> ""]

TransferOutcomes ==
    { Returned, ClientError("AccessDenied"), ClientError("403"), ClientError("SlowDown"),
      OtherError("NoCredentialsError") }

ProbeFailures == { ClientError("AccessDenied"), ClientError("404") }

\* head.get("ContentLength", -1) for the answers a store can give: the size
\* of the local file, another size, or no ContentLength at all
ContentLengths(size) == {size, size + 1, -1}

Call(op, outcome, len) ==
    [op |-> op, attempt |-> up.attempt, exc |-> outcome.exc, code |-> outcome.code,
     len |-> len]

\* an except clause that singles out no error code
AccessDeniedCodesNone == {}

AccessDeniedCodes == {"403", "AccessDenied"}

\* the except clauses (lines 293-302) and the end of the loop (line 304)
\* for an attempt that ended with exception e
AttemptFailed(e) ==
    IF e.exc = "ClientError" /\ e.code \in AccessDeniedCodes
    THEN /\ Raise(Error("RuntimeError",
                        "s3-access-denied: check credentials and bucket policy"))
         /\ UNCHANGED <<up, slept>>
    ELSE /\ slept' = slept + up.attempt
         /\ IF up.attempt < RETRIES
            THEN /\ up' = [up EXCEPT !.attempt = up.attempt + 1]
                 /\ pc' = "upload_file"
                 /\ err' = err
            ELSE /\ Raise(Error("RuntimeError",
                                "upload_failed: s3://" \o up.bucket \o "/" \o up.key))
                 /\ UNCHANGED up

\* lines 282-283: size = local_path.stat().st_size; the first attempt
UploadBegin ==
    /\ pc = "upload"
    /\ up' = [up EXCEPT !.size = Len(fs[up.local]), !.attempt = 1]
    /\ calls' = <<>>
    /\ slept' = 0
    /\ pc' = "upload_file"
    /\ UNCHANGED <<tidyVars, ingestVars, fs, wimg, err, remote>>
    /\ UNCHANGED extVars

\* line 285: s3.upload_file(local_path, bucket, key)
UploadFile ==
    /\ pc = "upload_file"
    /\ \E o \in TransferOutcomes :
         /\ calls' = Append(calls, Call("upload_file", o, -1))
         /\ IF o = Returned
            THEN /\ remote' = WriteFile(remote, up.key, fs[up.local])
                 /\ pc' = "head_object"
                 /\ UNCHANGED <<up, slept, err>>
            ELSE /\ AttemptFailed(o)
                 /\ UNCHANGED remote
    /\ UNCHANGED <<tidyVars, ingestVars, fs, wimg>>
    /\ UNCHANGED extVars

\* a probe check that takes any reported length
ProbeAcceptsAny(len) == TRUE

\* a probe check that also takes a response without ContentLength
ProbeAcceptsMissing(len) == len = up.size \/ len = -1

\* line 288: the attempt succeeds when the reported length is the local size
ProbeAccepts(len) == len = up.size

\* lines 287-292: head = s3.head_object(...); the length check; return
HeadObject ==
    /\ pc = "head_object"
    /\ \/ \E len \in ContentLengths(up.size) :
            /\ calls' = Append(calls, Call("head_object", Returned, len))
            /\ IF ProbeAccepts(len)
               THEN /\ pc' = "uploaded"
                    /\ UNCHANGED <<up, slept, err>>
               ELSE AttemptFailed(OtherError("RuntimeError"))
       \/ \E o \in ProbeFailures :
            /\ calls' = Append(calls, Call("head_object", o, -1))
            /\ AttemptFailed(o)
    /\ UNCHANGED <<tidyVars, ingestVars, fs, wimg, remote>>
    /\ UNCHANGED extVars

\* an end of the turn that unlinks the local file in every mode
IngestAfterUploadUnlinkAlways ==
    /\ pc = "uploaded"
    /\ fs' = RemoveFile(fs, CurPath)
    /\ processed' = processed + 1
    /\ pc' = "loop"
    /\ up' = NoUpload
    /\ calls' = <<>>
    /\ slept' = 0
    /\ UNCHANGED <<tidyVars, cfg, groups, cur, log, wimg, err, remote>>
    /\ UNCHANGED extVars

\* lines 399-406: in s3-only mode the local file is unlinked (a failure to
\* unlink is logged and ignored); the partition is done
IngestAfterUpload ==
    /\ pc = "uploaded"
    /\ IF cfg.write_local
       THEN UNCHANGED fs
       ELSE \/ fs' = RemoveFile(fs, CurPath)
            \/ UNCHANGED fs
    /\ processed' = processed + 1
    /\ pc' = "loop"
    /\ up' = NoUpload
    /\ calls' = <<>>
    /\ slept' = 0
    /\ UNCHANGED <<tidyVars, cfg, groups, cur, log, wimg, err, remote>>
    /\ UNCHANGED extVars

(***************************************************************************)
(* _download_s3_checked(s3, bucket, key, local_path, retries=3):           *)
(* src/scripts/s3_downloader.py lines 81-122.                              *)
(***************************************************************************)
\* head.get("ContentLength") of a response without the field, and the value
\* expected_size keeps when the probe raised
NoneSize == -1

NoDownload == [bucket |-> "", key |-> "", local |-> [dir |-> "", name |-> ""],
               expected |-> NoneSize, attempt |-> 0]

\* Path.suffix of the file names the model uses
Suffix(name) == IF name \in {"b3_stocks.parquet", "b3.parquet"} THEN ".parquet" ELSE ""

\* tmp = local_path.with_suffix(local_path.suffix + ".tmp")
DownloadTmpOf(path) == WithSuffix(path, Suffix(path.name) \o ".tmp")

\* lines 93-98: the head probe before the first attempt; whatever it raises
\* is logged and expected_size stays None
DownloadHead ==
    /\ pc = "download"
    /\ \E e \in {Len(remote[down.key]), Len(remote[down.key]) + 1, NoneSize} :
          down' = [down EXCEPT !.expected = e, !.attempt = 1]
    /\ pc' = "download_file"
    /\ UNCHANGED <<tidyVars, ingestVars, fs, wimg, err, uploadVars>>
    /\ UNCHANGED <<args, exit, race, rd, mnt>>

\* an except clause that retries at once
DownloadAttemptFailedNoSleep ==
    /\ slept' = slept
    /\ IF down.attempt < RETRIES
       THEN /\ down' = [down EXCEPT !.attempt = down.attempt + 1]
            /\ pc' = "download_file"
            /\ err' = err
       ELSE /\ Raise(Error("RuntimeError",
                           "download_failed: s3://" \o down.bucket \o "/" \o down.key))
            /\ UNCHANGED down

\* lines 118-122: the except clause, the sleep, the end of the loop
DownloadAttemptFailed ==
    /\ slept' = slept + down.attempt
    /\ IF down.attempt < RETRIES
       THEN /\ down' = [down EXCEPT !.attempt = down.attempt + 1]
            /\ pc' = "download_file"
            /\ err' = err
       ELSE /\ Raise(Error("RuntimeError",
                           "download_failed: s3://" \o down.bucket \o "/" \o down.key))
            /\ UNCHANGED down

\* lines 102-107: s3.download_file(bucket, key, tmp): it returns with the
\* whole object at tmp, or raises with tmp untouched or holding the first
\* bytes of the object
DownloadFile ==
    /\ pc = "download_file"
    /\ LET tmp == DownloadTmpOf(down.local)
           obj == remote[down.key]
       IN \/ /\ fs' = WriteFile(fs, tmp, obj)
             /\ pc' = "verify"
             /\ UNCHANGED <<down, slept, err>>
          \/ /\ \/ fs' = fs
                \/ \E n \in 0..(Len(obj) - 1) : fs' = WriteFile(fs, tmp, SubSeq(obj, 1, n))
             /\ DownloadAttemptFailed
    /\ UNCHANGED <<tidyVars, ingestVars, wimg, remote, up, calls>>
    /\ UNCHANGED <<args, exit, race, rd, mnt>>

\* a check that takes a temp file of any size
DownloadSizeAny(size, expected_size) == TRUE

\* lines 110-113: the size is compared only when the probe reported one
DownloadSizeOk(size, expected_size) == expected_size = NoneSize \/ size = expected_size

\* lines 109-113: verify size when available
DownloadVerify ==
    /\ pc = "verify"
    /\ IF DownloadSizeOk(Len(fs[DownloadTmpOf(down.local)]), down.expected)
       THEN /\ pc' = "dl_replace"
            /\ UNCHANGED <<down, slept, err>>
       ELSE DownloadAttemptFailed
    /\ UNCHANGED <<tidyVars, ingestVars, fs, wimg, remote, up, calls>>
    /\ UNCHANGED <<args, exit, race, rd, mnt>>

\* lines 115-117: tmp.replace(local_path); return
DownloadReplace ==
    /\ pc = "dl_replace"
    /\ fs' = ReplaceFile(fs, DownloadTmpOf(down.local), down.local)
    /\ pc' = "downloaded"
    /\ UNCHANGED <<tidyVars, ingestVars, wimg, err, uploadVars, down>>
    /\ UNCHANGED <<args, exit, race, rd, mnt>>

(***************************************************************************)
(* src/scripts/read_refined.py.  A path is the sequence of its parts, a    *)
(* part the sequence of the pieces of its name, "=" being a piece of its   *)
(* own; a dict is a function on its keys.                                  *)
(***************************************************************************)
\* an Optional[str] and an Optional[List[str]]
NoneStr == [some |-> FALSE, v |-> ""]
SomeStr(x) == [some |-> TRUE, v |-> x]
NoneList == [some |-> FALSE, v |-> <<>>]
SomeList(x) == [some |-> TRUE, v |-> x]

\* bool(x) of an Optional[str]
Truthy(o) == o.some /\ o.v # ""

\* lines 12-19
PARTITION_KEY_ALIASES ==
    [k \in {"dt", "date", "data_pregao", "ticker", "acao", "acao_negociada"} |->
        IF k \in {"dt", "date", "data_pregao"} THEN "data_pregao" ELSE "acao_negociada"]

\* str.strip and str.lower on the names the model's paths use
Strip(x) ==
    CASE x = " dt" -> "dt"
      [] OTHER -> x
Lower(x) ==
    CASE x = "DATE" -> "date"
      [] x = "Acao" -> "acao"
      [] OTHER -> x

RECURSIVE Join(_)
Join(pieces) == IF pieces = <<>> THEN "" ELSE Head(pieces) \o Join(Tail(pieces))

\* line 32: "=" in part
HasEquals(part) == \E i \in 1..Len(part) : part[i] = "="

\* line 33: part.split("=", 1)
FirstEquals(part) == CHOOSE i \in 1..Len(part) : part[i] = "=" /\ \A j \in 1..(i - 1) : part[j] # "="
SplitKey(part) == Join(SubSeq(part, 1, FirstEquals(part) - 1))
SplitValue(part) == Join(SubSeq(part, FirstEquals(part) + 1, Len(part)))

\* line 38: out[norm] = v
DictSet(out, k, v) == [x \in DOMAIN out \cup {k} |-> IF x = k THEN v ELSE out[x]]

\* line 61: parts.get(key)
DictGet(d, k) == IF k \in DOMAIN d THEN SomeStr(d[k]) ELSE NoneStr

EmptyDict == [x \in {} |-> ""]

\* lines 31-38: the loop over the parts
RECURSIVE ParseParts(_, _)
ParseParts(parts, out) ==
    IF parts = <<>> THEN out
    ELSE LET part == Head(parts)
         IN IF ~HasEquals(part) THEN ParseParts(Tail(parts), out)
            ELSE LET k == Lower(Strip(SplitKey(part)))
                     v == Strip(SplitValue(part))
                 IN IF k \in DOMAIN PARTITION_KEY_ALIASES
                    THEN ParseParts(Tail(parts), DictSet(out, PARTITION_KEY_ALIASES[k], v))
                    ELSE ParseParts(Tail(parts), out)

\* lines 22-39
parse_partitions_from_path(p) == ParseParts(p, EmptyDict)

\* str < str on the strings the model uses: their place in sorted order
StringOrder == <<"", "2026-01-15", "2026-01-16", "2026-01-17", "2026-02-01", "2026-1-20">>
StrRank(x) == CHOOSE i \in 1..Len(StringOrder) : StringOrder[i] = x
StrLess(a, b) == StrRank(a) < StrRank(b)

\* lines 56-57: set(x or [])
SetOf(o) == {o.v[i] : i \in 1..Len(o.v)}

\* lines 59-71
Ok(p, data_pregaos, acoes, start, end) ==
    LET parts == parse_partitions_from_path(p)
        td == DictGet(parts, "data_pregao")
        ac == DictGet(parts, "acao_negociada")
    IN /\ ~(SetOf(data_pregaos) # {} /\ ~(td.some /\ td.v \in SetOf(data_pregaos)))
       /\ ~(SetOf(acoes) # {} /\ ~(ac.some /\ ac.v \in SetOf(acoes)))
       /\ ~(Truthy(start) /\ Truthy(td) /\ StrLess(td.v, start.v))
       /\ ~(Truthy(end) /\ Truthy(td) /\ StrLess(end.v, td.v))

\* lines 49-73
filter_files(files, data_pregaos, acoes, start, end) ==
    SelectSeq(files, LAMBDA p : Ok(p, data_pregaos, acoes, start, end))

\* lines 49-55: the keyword parameters of filter_files
FilterParams == {"data_pregaos", "acoes", "start", "end"}

\* a keyword argument of a call, or the default of its parameter
ListArg(kwargs, name) == IF name \in DOMAIN kwargs THEN SomeList(kwargs[name]) ELSE NoneList
StrArg(kwargs, name) == IF name \in DOMAIN kwargs THEN SomeStr(kwargs[name][1]) ELSE NoneStr

NoRead == [pc |-> "idle", files |-> <<>>, kwargs |-> <<>>, parts |-> <<>>,
           res |-> <<>>, err |-> ""]

\* a call of parse_partitions_from_path on each of the files
ParsePartitionsCall ==
    /\ pc = "read"
    /\ rd.pc = "start"
    /\ rd' = [rd EXCEPT !.pc = "parsed",
                        !.parts = [i \in 1..Len(rd.files) |->
                                      parse_partitions_from_path(rd.files[i])]]
    /\ UNCHANGED <<tidyVars, pc, ingestVars, fs, wimg, err, uploadVars, down, args, exit, race, mnt>>

\* a call filter_files(files, **kwargs): a keyword that is no parameter of
\* the function is a TypeError
FilterFilesCall ==
    /\ pc = "read"
    /\ rd.pc = "parsed"
    /\ IF ~(DOMAIN rd.kwargs \subseteq FilterParams)
       THEN rd' = [rd EXCEPT !.pc = "filtered", !.err = "TypeError"]
       ELSE rd' = [rd EXCEPT !.pc = "filtered",
                             !.res = filter_files(rd.files,
                                                  ListArg(rd.kwargs, "data_pregaos"),
                                                  ListArg(rd.kwargs, "acoes"),
                                                  StrArg(rd.kwargs, "start"),
                                                  StrArg(rd.kwargs, "end"))]
    /\ UNCHANGED <<tidyVars, pc, ingestVars, fs, wimg, err, uploadVars, down, args, exit, race, mnt>>

(***************************************************************************)
(* src/scripts/compress_refined.py and src/scripts/fix_refined_columns.py: *)
(* main and process_file.  A parquet file is its column names and its      *)
(* compression codec; ok is FALSE for bytes pd.read_parquet cannot read.   *)
(***************************************************************************)
ParquetFile(cols, codec) == [cols |-> cols, codec |-> codec, ok |-> TRUE]
Unreadable == [cols |-> <<>>, codec |-> "", ok |-> FALSE]

\* compress_refined.py line 10
DEFAULT_COMPRESSION == "snappy"

\* fix_refined_columns.py lines 10-13
DEFAULT_MAPPING ==
    [k \in {"max_acao_maxima_#0", "sum_volume_#1"} |->
        IF k = "max_acao_maxima_#0" THEN "max_acao_maxima" ELSE "sum_volume"]

\* fix_refined_columns.py line 28: the entries of the mapping whose key is a column
ToRename(cols, mapping) == {k \in DOMAIN mapping : k \in Range(cols)}

\* fix_refined_columns.py line 39: df.rename(columns=to_rename)
RenameColumns(cols, mapping) ==
    [j \in 1..Len(cols) |-> IF cols[j] \in DOMAIN mapping THEN mapping[cols[j]] ELSE cols[j]]

\* to_parquet refuses a frame with two columns of one name
HasDuplicates(cols) == \E i, j \in 1..Len(cols) : i # j /\ cols[i] = cols[j]

\* tmp = p.with_suffix(p.suffix + ".tmp")
MaintTmpOf(p) == WithSuffix(p, Suffix(p.name) \o ".tmp")

\* a dry_run argument taken from --dry-run alone
DryRunOfFlagOnly(m) == m.dry_run

\* compress_refined.py line 64, fix_refined_columns.py line 88:
\* dry_run=args.dry_run or not args.confirm
DryRunOf(m) == m.dry_run \/ ~m.confirm

\* the file process_file writes for the frame it read
Rewritten(m) ==
    IF m.script = "compress" THEN ParquetFile(m.df.cols, DEFAULT_COMPRESSION)
    ELSE ParquetFile(RenameColumns(m.df.cols, DEFAULT_MAPPING), "snappy")

NoMaint == [script |-> "", dry_run |-> FALSE, confirm |-> FALSE, base |-> FALSE, dry |-> FALSE,
            files |-> <<>>, i |-> 0, pc |-> "idle", df |-> Unreadable, ret |-> <<>>,
            count |-> 0, rc |-> -1, unlink_failed |-> {}]

otherThanMaint == <<tidyVars, pc, ingestVars, wimg, err, uploadVars, down, args, exit, race, rd>>

\* process_file returns b; main counts it (compress 65-66, fix 89-90)
MaintReturn(m, b) ==
    [m EXCEPT !.ret = Append(m.ret, b),
              !.count = IF b /\ (m.confirm \/ m.dry_run) THEN m.count + 1 ELSE m.count,
              !.pc = "loop"]

\* main up to the loop (compress 52-62, fix 67-86): return 2 without the
\* base path
MaintMain ==
    /\ pc = "maint"
    /\ mnt.pc = "main"
    /\ mnt' = IF mnt.base THEN [mnt EXCEPT !.pc = "loop"]
              ELSE [mnt EXCEPT !.pc = "returned", !.rc = 2]
    /\ UNCHANGED <<fs, otherThanMaint>>

\* the for loop and its call of process_file (compress 63-64, fix 87-88), and
\* the return 0 after the loop
MaintLoop ==
    /\ pc = "maint"
    /\ mnt.pc = "loop"
    /\ mnt' = IF mnt.i < Len(mnt.files)
              THEN [mnt EXCEPT !.i = mnt.i + 1, !.dry = DryRunOf(mnt), !.pc = "process_file"]
              ELSE [mnt EXCEPT !.pc = "returned", !.rc = 0]
    /\ UNCHANGED <<fs, otherThanMaint>>

\* process_file up to the temp path (compress 15-23, fix 21-34): the read,
\* the columns to rename, the dry run
MaintRead ==
    /\ pc = "maint"
    /\ mnt.pc = "process_file"
    /\ LET p == mnt.files[mnt.i]
       IN mnt' = IF ~fs[p].ok THEN MaintReturn(mnt, FALSE)
                 ELSE IF mnt.script = "fix" /\ ToRename(fs[p].cols, DEFAULT_MAPPING) = {}
                      THEN MaintReturn(mnt, FALSE)
                 ELSE IF mnt.dry THEN MaintReturn(mnt, TRUE)
                 ELSE [mnt EXCEPT !.df = fs[p], !.pc = "to_parquet"]
    /\ UNCHANGED <<fs, otherThanMaint>>

\* df.to_parquet(tmp) (compress 27, fix 39-42): it writes the whole file, or
\* raises before creating the file, or raises with part of it written
MaintToParquet ==
    /\ pc = "maint"
    /\ mnt.pc = "to_parquet"
    /\ LET tmp == MaintTmpOf(mnt.files[mnt.i])
       IN IF HasDuplicates(Rewritten(mnt).cols)
          THEN /\ fs' = fs
               /\ mnt' = [mnt EXCEPT !.pc = "except"]
          ELSE \/ /\ fs' = WriteFile(fs, tmp, Rewritten(mnt))
                  /\ mnt' = [mnt EXCEPT !.pc = "replace"]
               \/ /\ fs' = fs
                  /\ mnt' = [mnt EXCEPT !.pc = "except"]
               \/ /\ fs' = WriteFile(fs, tmp, Unreadable)
                  /\ mnt' = [mnt EXCEPT !.pc = "except"]
    /\ UNCHANGED otherThanMaint

\* tmp.replace(p); return True (compress 28-30, fix 43-45)
MaintReplace ==
    /\ pc = "maint"
    /\ mnt.pc = "replace"
    /\ LET p == mnt.files[mnt.i]
       IN \/ /\ fs' = ReplaceFile(fs, MaintTmpOf(p), p)
             /\ mnt' = MaintReturn(mnt, TRUE)
          \/ /\ fs' = fs
             /\ mnt' = [mnt EXCEPT !.pc = "except"]
    /\ UNCHANGED otherThanMaint

\* the except clause (compress 31-38, fix 46-53): unlink tmp if it exists,
\* whatever the unlink raises is passed over; return False
MaintExcept ==
    /\ pc = "maint"
    /\ mnt.pc = "except"
    /\ LET tmp == MaintTmpOf(mnt.files[mnt.i])
       IN IF HasFile(fs, tmp)
          THEN \/ /\ fs' = RemoveFile(fs, tmp)
                  /\ mnt' = MaintReturn(mnt, FALSE)
               \/ /\ fs' = fs
                  /\ mnt' = MaintReturn([mnt EXCEPT !.unlink_failed = @ \cup {tmp}], FALSE)
          ELSE /\ fs' = fs
               /\ mnt' = MaintReturn(mnt, FALSE)
    /\ UNCHANGED otherThanMaint

\* no concurrent writer
NoRace == <<>>

\* the command line before it is read: no option given, nothing exited
NoExit == -1

NoArgs == [date |-> 0, start_date |-> 0, end_date |-> 0,
           local |-> FALSE, s3_only |-> FALSE, both |-> FALSE, bucket |-> ""]

(***************************************************************************)
(* SpecTidy: one call of _to_tidy on each frame and ticker list.           *)
(***************************************************************************)
Config(write_local, upload_to_s3, s3_bucket, pyarrow) ==
    [write_local |-> write_local, upload_to_s3 |-> upload_to_s3, s3_bucket |-> s3_bucket,
     s3_prefix |-> "raw", out_dir |-> "data", pyarrow |-> pyarrow]

InitIdle ==
    /\ cfg = Config(TRUE, FALSE, "", TRUE)
    /\ groups = <<>>
    /\ cur = 0
    /\ wimg = <<>>
    /\ err = NoError
    /\ processed = 0
    /\ log = <<>>
    /\ calls = <<>>
    /\ slept = 0
    /\ down = NoDownload
    /\ args = NoArgs
    /\ exit = NoExit
    /\ race = NoRace
    /\ rd = NoRead
    /\ mnt = NoMaint

InitTidy ==
    /\ df \in Sources
    /\ tickers \in TickerLists
    /\ tidy = NotCalled
    /\ pc = "to_tidy"
    /\ InitIdle
    /\ fs = NoFiles
    /\ remote = NoFiles
    /\ up = NoUpload

ToTidyCall ==
    /\ pc = "to_tidy"
    /\ tidy' = ToTidy(df, tickers)
    /\ pc' = "tidy_returned"
    /\ UNCHANGED <<df, tickers, ingestVars, fs, wimg, err, uploadVars>>
    /\ UNCHANGED extVars

NextTidy == ToTidyCall

SpecTidy == InitTidy /\ [][NextTidy]_vars

(***************************************************************************)
(* SpecUpload: one call of _upload_s3_checked on an existing local file,   *)
(* against a store that answers each call in any of the ways above.        *)
(***************************************************************************)
UploadLocalPath == [dir |-> "data/raw/dt=2026-01-16", name |-> "b3_stocks.parquet"]

UploadSources ==
    { Encode(<<>>),
      Encode(<< <<Ts(10), Str("VALE3.SA"), Null, Null, Null, Null, Null, Int64(0)>> >>) }

UploadTargets ==
    { [bucket |-> "b3-bucket", key |-> "raw/dt=2026-01-16/b3_stocks.parquet"],
      [bucket |-> "b3-archive", key |-> "refined/dt=2026-01-16/b3_stocks.parquet"] }

InitUpload ==
    /\ df = NotCalled
    /\ tickers = <<>>
    /\ tidy = NotCalled
    /\ InitIdle
    /\ \E bytes \in UploadSources : fs = WriteFile(NoFiles, UploadLocalPath, bytes)
    /\ \E t \in UploadTargets :
         /\ up = [bucket |-> t.bucket, key |-> t.key, local |-> UploadLocalPath,
                  size |-> 0, attempt |-> 0]
         /\ remote \in {NoFiles, WriteFile(NoFiles, t.key, PriorFile)}
    /\ pc = "upload"

NextUpload == UploadBegin \/ UploadFile \/ HeadObject

SpecUpload == InitUpload /\ [][NextUpload]_vars

(***************************************************************************)
(* SpecDownload: one call of _download_s3_checked for an object of the     *)
(* bucket, onto a local path that may hold an earlier download.            *)
(***************************************************************************)
InitDownload ==
    /\ df = NotCalled
    /\ tickers = <<>>
    /\ tidy = NotCalled
    /\ cfg = Config(TRUE, FALSE, "", TRUE)
    /\ groups = <<>>
    /\ cur = 0
    /\ wimg = <<>>
    /\ err = NoError
    /\ processed = 0
    /\ log = <<>>
    /\ calls = <<>>
    /\ slept = 0
    /\ up = NoUpload
    /\ args = NoArgs
    /\ exit = NoExit
    /\ race = NoRace
    /\ rd = NoRead
    /\ mnt = NoMaint
    /\ \E t \in UploadTargets, bytes \in UploadSources :
         /\ remote = WriteFile(NoFiles, t.key, bytes)
         /\ down = [bucket |-> t.bucket, key |-> t.key, local |-> UploadLocalPath,
                    expected |-> NoneSize, attempt |-> 0]
    /\ fs \in { NoFiles,
                WriteFile(NoFiles, UploadLocalPath, PriorFile),
                WriteFile(WriteFile(NoFiles, UploadLocalPath, PriorFile),
                          DownloadTmpOf(UploadLocalPath), LeftoverTmp) }
    /\ pc = "download"

NextDownload == DownloadHead \/ DownloadFile \/ DownloadVerify \/ DownloadReplace

SpecDownload == InitDownload /\ [][NextDownload]_vars

(***************************************************************************)
(* SpecTransfer: one call of either transfer function.  Each is a          *)
(* sequential loop whose calls on the client return or raise, so a call    *)
(* that can take a step takes one.                                         *)
(***************************************************************************)
InitTransfer == InitUpload \/ InitDownload

NextTransfer == NextUpload \/ NextDownload

SpecTransfer == InitTransfer /\ [][NextTransfer]_vars /\ WF_vars(NextTransfer)

(***************************************************************************)
(* Spec: one run of ingest, from the frame yf.download returns to the      *)
(* last partition, over a filesystem earlier runs may have written to.     *)
(***************************************************************************)
IngestIndexes ==
    {idx \in Indexes : Len(idx) >= 1 /\ \A i \in 1..Len(idx) : idx[i] \in {Ts(10), Ts(47), Null}}

StandardColumns == <<"Open", "High", "Low", "Close", "Adj Close", "Volume">>

IngestSources ==
    { FlatFrame(name, Naive, idx, StandardColumns, 1) :
        name \in IndexNames, idx \in IngestIndexes }
    \cup
    { MultiFrame(Aware(-3), <<Ts(23), Ts(47)>>, <<"VALE3.SA", "PETR4.SA">>,
                 <<"Close", "Volume">>, TRUE, 0, 1),
      FlatFrame("", Naive, <<>>, StandardColumns, 1),
      FlatFrame("", Naive, <<Ts(10)>>, <<"Close", "CLOSE", "Volume">>, 1) }

Configs ==
    { Config(TRUE, FALSE, "", TRUE),            \* --local
      Config(TRUE, TRUE, "b3-bucket", TRUE),    \* --both
      Config(FALSE, TRUE, "b3-bucket", TRUE),   \* --s3-only
      Config(TRUE, TRUE, "", TRUE),             \* --both, S3_BUCKET unset
      Config(TRUE, FALSE, "", FALSE) }          \* pyarrow not installed

PartitionDays == {0, 1, 2}

\* what earlier runs left under the output root: nothing, a file at every
\* partition's target, or those and a half-written temp file beside each
InitialFiles ==
    LET targets == {LocalPathOf("data", "raw", d) : d \in PartitionDays}
        prior == [q \in targets |-> PriorFile]
        temps == [q \in {TmpPathOf(t) : t \in targets} |-> LeftoverTmp]
    IN { NoFiles, prior,
         [q \in DOMAIN prior \cup DOMAIN temps |->
            IF q \in DOMAIN prior THEN prior[q] ELSE temps[q]] }

Init ==
    /\ df \in IngestSources
    /\ tickers = <<"VALE3.SA">>
    /\ tidy = NotCalled
    /\ pc = "ingest"
    /\ cfg \in Configs
    /\ groups = <<>>
    /\ cur = 0
    /\ fs \in InitialFiles
    /\ wimg = <<>>
    /\ err = NoError
    /\ processed = 0
    /\ log = <<>>
    /\ remote = NoFiles
    /\ up = NoUpload
    /\ calls = <<>>
    /\ slept = 0
    /\ down = NoDownload
    /\ args = NoArgs
    /\ exit = NoExit
    /\ race = NoRace
    /\ rd = NoRead
    /\ mnt = NoMaint

Next ==
    \/ IngestDownload
    \/ IngestNormalize
    \/ IngestGroup
    \/ IngestLoop
    \/ WriteBegin
    \/ WriteOpen
    \/ WriteChunk
    \/ WriteClose
    \/ WriteFail
    \/ CheckMagic
    \/ CheckFooter
    \/ Replace
    \/ IngestAfterWrite
    \/ UploadBegin
    \/ UploadFile
    \/ HeadObject
    \/ IngestAfterUpload
    \/ Crash

Spec == Init /\ [][Next]_vars

(***************************************************************************)
(* SpecPrefix: runs of ingest under each value of s3_prefix (--prefix).    *)
(***************************************************************************)
Prefixes == {"raw", "raw/", "raw//", "", "/", "/raw", "/raw/"}

PrefixSources ==
    { FlatFrame("", Naive, <<Ts(10), Ts(47)>>, StandardColumns, 1),
      MultiFrame(Aware(-3), <<Ts(23), Ts(47)>>, <<"VALE3.SA", "PETR4.SA">>,
                 <<"Close", "Volume">>, TRUE, 0, 1) }

InitPrefix ==
    /\ df \in PrefixSources
    /\ tickers = <<"VALE3.SA">>
    /\ tidy = NotCalled
    /\ pc = "ingest"
    /\ \E c \in Configs, p \in Prefixes : cfg = [c EXCEPT !.s3_prefix = p]
    /\ groups = <<>>
    /\ cur = 0
    /\ fs = NoFiles
    /\ wimg = <<>>
    /\ err = NoError
    /\ processed = 0
    /\ log = <<>>
    /\ remote = NoFiles
    /\ up = NoUpload
    /\ calls = <<>>
    /\ slept = 0
    /\ down = NoDownload
    /\ args = NoArgs
    /\ exit = NoExit
    /\ race = NoRace
    /\ rd = NoRead
    /\ mnt = NoMaint

SpecPrefix == InitPrefix /\ [][Next]_vars

(***************************************************************************)
(* The command line of ingestor.py: src/ingestor.py lines 411-557.         *)
(* A date is the day of January 2026 it names, 0 for an option not given.  *)
(***************************************************************************)
\* lines 475-477: --date together with --start-date or --end-date
DateConflict(a) == a.date # 0 /\ (a.start_date # 0 \/ a.end_date # 0)

\* lines 481-486: a range is asked for; a start without an end is one day
RangeGiven(a) == a.date = 0 /\ (a.start_date # 0 \/ a.end_date # 0)
RangeEnd(a) == IF a.start_date # 0 /\ a.end_date = 0 THEN a.start_date ELSE a.end_date

\* lines 506-511: --s3-only with --local, --both with --local or --s3-only
ModeConflict(a) == (a.s3_only /\ a.local) \/ (a.both /\ (a.local \/ a.s3_only))

\* lines 514-526: write_local and upload_to_s3 from the three flags and
\* S3_BUCKET
WriteLocalOf(a) == ~a.s3_only
UploadToS3OfBucket(a) == a.bucket # ""
UploadToS3Of(a) ==
    IF a.s3_only THEN TRUE
    ELSE IF a.local THEN FALSE
    ELSE IF a.both THEN TRUE
    ELSE a.bucket # ""

\* sys.exit(code)
Exit(code) ==
    /\ exit' = code
    /\ pc' = "exited"

\* lines 471-526: the checks on the arguments, in the order of the code,
\* then the call of ingest.  A range with an end and no start compares a
\* Timestamp with None outside any try block: the interpreter ends with
\* status 1.
MainParse ==
    /\ pc = "main"
    /\ IF DateConflict(args) THEN Exit(2) /\ UNCHANGED cfg
       ELSE IF RangeGiven(args) /\ args.start_date = 0 THEN Exit(1) /\ UNCHANGED cfg
       ELSE IF RangeGiven(args) /\ RangeEnd(args) < args.start_date
            THEN Exit(2) /\ UNCHANGED cfg
       ELSE IF ModeConflict(args) THEN Exit(2) /\ UNCHANGED cfg
       ELSE /\ cfg' = Config(WriteLocalOf(args), UploadToS3Of(args), args.bucket, TRUE)
            /\ pc' = "ingest"
            /\ exit' = exit
    /\ UNCHANGED <<tidyVars, groups, cur, processed, log, fs, wimg, err, uploadVars,
                   down, args, race, rd, mnt>>

\* the except clauses of lines 542-557 by exception class:
\* IntCastingNaNError is a ValueError
ExitCodeOf(type) ==
    CASE type = "ArgumentTypeError" -> 2
      [] type \in {"ValueError", "IntCastingNaNError"} -> 3
      [] type = "RuntimeError" -> 4
      [] type = "NoCredentialsError" -> 5
      [] OTHER -> 99

\* lines 528-557: ingest returned (the interpreter ends with status 0) or
\* raised
MainExit ==
    /\ pc \in {"done", "raised"}
    /\ Exit(IF pc = "done" THEN 0 ELSE ExitCodeOf(err.type))
    /\ UNCHANGED <<tidyVars, ingestVars, fs, wimg, err, uploadVars, down, args, race, rd, mnt>>

(***************************************************************************)
(* SpecRace: two runs call _write_parquet_atomic (lines 230-271) for the   *)
(* same partition at the same time.  Each run holds its own open file on   *)
(* whatever file was at the temp path when it opened it, and writes at     *)
(* its own offset; a rename moves the file, open handles included.         *)
(***************************************************************************)
Runs == {1, 2}

RaceTarget == LocalPathOf("data", "raw", 0)
RaceTmp == TmpPathOf(RaceTarget)

\* the rows of the partition as each run downloaded them
RaceRows(r) ==
    << <<Ts(10), Str("VALE3.SA"), Null, Null, Null, Num(100 + r), Null, Int64(r)>> >>

\* write(2) of one element at offset pos: the file grows, zero-filled, when
\* pos is past its end
WriteAt(bytes, pos, b) ==
    IF pos < Len(bytes) THEN [bytes EXCEPT ![pos + 1] = b]
    ELSE bytes \o [i \in 1..(pos - Len(bytes)) |-> Byte(0)] \o <<b>>

otherThanRace == <<tidyVars, pc, ingestVars, wimg, err, uploadVars, down, args, exit, rd, mnt>>

RaceRaise(r, e) == race' = [race EXCEPT ![r].pc = "raised", ![r].err = e]

\* line 251: open(tmp, O_WRONLY | O_CREAT | O_TRUNC)
RaceOpen(r) ==
    /\ race[r].pc = "write_table"
    /\ \E img \in WriterImages(RaceRows(r)) :
          race' = [race EXCEPT ![r].pc = "writing", ![r].img = img,
                               ![r].at = "tmp", ![r].pos = 0]
    /\ fs' = WriteFile(fs, RaceTmp, <<>>)
    /\ UNCHANGED otherThanRace

\* line 251, going on: one more element through the run's open file
RaceChunk(r) ==
    /\ race[r].pc = "writing"
    /\ race[r].pos < Len(race[r].img)
    /\ LET b == race[r].img[race[r].pos + 1]
           q == IF race[r].at = "tmp" THEN RaceTmp ELSE RaceTarget
       IN fs' = IF race[r].at = "gone" THEN fs
                ELSE WriteFile(fs, q, WriteAt(fs[q], race[r].pos, b))
    /\ race' = [race EXCEPT ![r].pos = race[r].pos + 1]
    /\ UNCHANGED otherThanRace

\* line 251: write_table closes the file and returns
RaceClose(r) ==
    /\ race[r].pc = "writing"
    /\ race[r].pos = Len(race[r].img)
    /\ race' = [race EXCEPT ![r].pc = "check_magic", ![r].at = "closed"]
    /\ UNCHANGED <<fs, otherThanRace>>

\* lines 262-264: open(tmp, "rb"); f.read(4)
RaceCheckMagic(r) ==
    /\ race[r].pc = "check_magic"
    /\ IF ~HasFile(fs, RaceTmp) THEN RaceRaise(r, "FileNotFoundError")
       ELSE IF ReadHead4(fs[RaceTmp]) # Magic THEN RaceRaise(r, "parquet-magic-missing")
       ELSE race' = [race EXCEPT ![r].pc = "check_footer"]
    /\ UNCHANGED <<fs, otherThanRace>>

\* lines 266-269: open(tmp, "rb"); f.seek(-4, 2) fails on a file of less
\* than 4 bytes; f.read(4)
RaceCheckFooter(r) ==
    /\ race[r].pc = "check_footer"
    /\ IF ~HasFile(fs, RaceTmp) THEN RaceRaise(r, "FileNotFoundError")
       ELSE IF Len(fs[RaceTmp]) < 4 THEN RaceRaise(r, "OSError")
       ELSE IF ReadTail4(fs[RaceTmp]) # Magic
            THEN RaceRaise(r, "parquet-footer-magic-missing")
       ELSE race' = [race EXCEPT ![r].pc = "replace"]
    /\ UNCHANGED <<fs, otherThanRace>>

\* line 271: tmp.replace(out_path): the file at tmp, with every handle open
\* on it, is now at out_path; the file that was there is unlinked
RaceReplace(r) ==
    /\ race[r].pc = "replace"
    /\ IF ~HasFile(fs, RaceTmp)
       THEN RaceRaise(r, "FileNotFoundError") /\ fs' = fs
       ELSE /\ fs' = ReplaceFile(fs, RaceTmp, RaceTarget)
            /\ race' = [x \in Runs |->
                          [race[x] EXCEPT
                             !.pc = IF x = r THEN "returned" ELSE race[x].pc,
                             !.at = CASE race[x].at = "tmp" -> "target"
                                      [] race[x].at = "target" -> "gone"
                                      [] OTHER -> race[x].at]]
    /\ UNCHANGED otherThanRace

InitRace ==
    /\ df = NotCalled
    /\ tickers = <<>>
    /\ tidy = NotCalled
    /\ cfg = Config(TRUE, FALSE, "", TRUE)
    /\ groups = <<>>
    /\ cur = 0
    /\ wimg = <<>>
    /\ err = NoError
    /\ processed = 0
    /\ log = <<>>
    /\ calls = <<>>
    /\ slept = 0
    /\ down = NoDownload
    /\ args = NoArgs
    /\ exit = NoExit
    /\ remote = NoFiles
    /\ up = NoUpload
    /\ fs \in {NoFiles, WriteFile(NoFiles, RaceTarget, PriorFile)}
    /\ race = [r \in Runs |-> [pc |-> "write_table", img |-> <<>>, at |-> "closed",
                               pos |-> 0, err |-> ""]]
    /\ rd = NoRead
    /\ mnt = NoMaint
    /\ pc = "race"

NextRace ==
    \E r \in Runs :
        \/ RaceOpen(r)
        \/ RaceChunk(r)
        \/ RaceClose(r)
        \/ RaceCheckMagic(r)
        \/ RaceCheckFooter(r)
        \/ RaceReplace(r)

SpecRace == InitRace /\ [][NextRace]_vars

(***************************************************************************)
(* SpecMain: the command from its arguments to its exit status, around     *)
(* one run of ingest on an empty frame or on a two-day frame.              *)
(***************************************************************************)
MainArgs ==
    [date : {0, 16}, start_date : {0, 16, 17}, end_date : {0, 16},
     local : BOOLEAN, s3_only : BOOLEAN, both : BOOLEAN, bucket : {"", "b3-bucket"}]

MainSources ==
    { FlatFrame("", Naive, <<>>, StandardColumns, 1),
      FlatFrame("", Naive, <<Ts(10), Ts(47)>>, StandardColumns, 1) }

InitMain ==
    /\ df \in MainSources
    /\ tickers = <<"VALE3.SA">>
    /\ tidy = NotCalled
    /\ pc = "main"
    /\ cfg = Config(TRUE, FALSE, "", TRUE)
    /\ groups = <<>>
    /\ cur = 0
    /\ fs = NoFiles
    /\ wimg = <<>>
    /\ err = NoError
    /\ processed = 0
    /\ log = <<>>
    /\ remote = NoFiles
    /\ up = NoUpload
    /\ calls = <<>>
    /\ slept = 0
    /\ down = NoDownload
    /\ args \in MainArgs
    /\ exit = NoExit
    /\ race = NoRace
    /\ rd = NoRead
    /\ mnt = NoMaint

NextMain == MainParse \/ MainExit \/ Next

SpecMain == InitMain /\ [][NextMain]_vars

(***************************************************************************)
(* SpecRead: parse_partitions_from_path on each of up to MaxFiles paths,   *)
(* then one call of filter_files on them.                                  *)
(***************************************************************************)
MaxFiles == 2

Part(k, v) == <<k, "=", v>>
Refined(date_part, ticker_part) == << <<"data">>, <<"refined">>, date_part, ticker_part, <<"b3.parquet">> >>

\* the two files of src/tests/test_read_refined.py
TestFile1 == Refined(Part("trade_date", "2026-01-16"), Part("acao_negociada", "VALE3.SA"))
TestFile2 == Refined(Part("trade_date", "2026-01-17"), Part("acao_negociada", "PETR4.SA"))

ReadPaths ==
    { TestFile1,
      TestFile2,
      Refined(Part("data_pregao", "2026-01-16"), Part("acao_negociada", "VALE3.SA")),
      Refined(Part("dt", "2026-01-17"), Part("ticker", "PETR4.SA")),
      Refined(Part("DATE", "2026-01-15"), Part("Acao", "VALE3.SA")),
      Refined(Part(" dt", "2026-1-20"), Part("acao", "PETR4.SA")),
      << <<"data">>, <<"refined">>, Part("dt", "2026-01-16"), Part("date", "2026-02-01"),
         <<"ticker", "=", "VALE3.SA", "=", "b3.parquet">> >>,
      << <<"data">>, <<"refined">>, Part("ticker", "VALE3.SA"), <<"b3.parquet">> >>,
      << <<"data">>, <<"refined">>, <<"b3.parquet">> >> }

ReadFiles == UNION { [1..n -> ReadPaths] : n \in 0..MaxFiles }

\* the keyword arguments of a call: each given or left out
DateListArgs == { <<>>, [k \in {"data_pregaos"} |-> <<"2026-01-16">>],
                        [k \in {"trade_dates"} |-> <<"2026-01-16">>] }
AcoesArgs == { <<>>, [k \in {"acoes"} |-> <<"VALE3.SA">>] }
StartArgs == { <<>>, [k \in {"start"} |-> <<"2026-01-16">>] }
EndArgs == { <<>>, [k \in {"end"} |-> <<"2026-01-16">>], [k \in {"end"} |-> <<"2026-01-17">>] }

Merge(f, g) == [k \in DOMAIN f \cup DOMAIN g |-> IF k \in DOMAIN f THEN f[k] ELSE g[k]]

ReadKwargs ==
    { Merge(Merge(a, b), Merge(c, d)) :
        a \in DateListArgs, b \in AcoesArgs, c \in StartArgs, d \in EndArgs }

InitRead ==
    /\ df = NotCalled
    /\ tickers = <<>>
    /\ tidy = NotCalled
    /\ pc = "read"
    /\ cfg = Config(TRUE, FALSE, "", TRUE)
    /\ groups = <<>>
    /\ cur = 0
    /\ fs = NoFiles
    /\ wimg = <<>>
    /\ err = NoError
    /\ processed = 0
    /\ log = <<>>
    /\ remote = NoFiles
    /\ up = NoUpload
    /\ calls = <<>>
    /\ slept = 0
    /\ down = NoDownload
    /\ args = NoArgs
    /\ exit = NoExit
    /\ race = NoRace
    /\ \E files \in ReadFiles, kwargs \in ReadKwargs :
          rd = [pc |-> "start", files |-> files, kwargs |-> kwargs, parts |-> <<>>,
                res |-> <<>>, err |-> ""]
    /\ mnt = NoMaint

NextRead == ParsePartitionsCall \/ FilterFilesCall

SpecRead == InitRead /\ [][NextRead]_vars

(***************************************************************************)
(* SpecMaint: one run of main of either maintenance script over up to      *)
(* MaxFiles parquet files, with each choice of --dry-run and --confirm.    *)
(***************************************************************************)
MaintPath(ticker) ==
    [dir |-> "data/refined/trade_date=2026-01-16/acao_negociada=" \o ticker,
     name |-> "b3.parquet"]

MaintPaths == <<MaintPath("VALE3.SA"), MaintPath("PETR4.SA")>>

\* the files a refined tree can hold: the frames of the two tests, a file
\* already rewritten, one whose renamed column is already there, and one
\* that is no parquet file
MaintContents ==
    { ParquetFile(<<"a", "b">>, "gzip"),
      ParquetFile(<<"max_acao_maxima_#0", "sum_volume_#1", "other">>, "snappy"),
      ParquetFile(<<"max_acao_maxima", "sum_volume", "other">>, "snappy"),
      ParquetFile(<<"sum_volume_#1", "sum_volume">>, "gzip"),
      Unreadable }

\* a temp file an earlier run left beside the first file
StaleTmp == ParquetFile(<<"stale">>, "gzip")

MaintFilesystems ==
    UNION { { [j \in 1..n |-> c[j]] : c \in [1..n -> MaintContents] } : n \in 0..MaxFiles }

InitMaint ==
    /\ df = NotCalled
    /\ tickers = <<>>
    /\ tidy = NotCalled
    /\ pc = "maint"
    /\ cfg = Config(TRUE, FALSE, "", TRUE)
    /\ groups = <<>>
    /\ cur = 0
    /\ wimg = <<>>
    /\ err = NoError
    /\ processed = 0
    /\ log = <<>>
    /\ remote = NoFiles
    /\ up = NoUpload
    /\ calls = <<>>
    /\ slept = 0
    /\ down = NoDownload
    /\ args = NoArgs
    /\ exit = NoExit
    /\ race = NoRace
    /\ rd = NoRead
    /\ \E contents \in MaintFilesystems, stale \in BOOLEAN :
          LET n == IF Len(contents) < Len(MaintPaths) THEN Len(contents) ELSE Len(MaintPaths)
              files == SubSeq(MaintPaths, 1, n)
              base == [q \in Range(files) |->
                         contents[CHOOSE j \in 1..n : files[j] = q]]
          IN /\ fs = IF stale /\ n > 0
                     THEN WriteFile(base, MaintTmpOf(files[1]), StaleTmp)
                     ELSE base
             /\ \E script \in {"compress", "fix"}, dry_run \in BOOLEAN,
                   confirm \in BOOLEAN, exists \in BOOLEAN :
                   /\ (n > 0 => exists)
                   /\ mnt = [NoMaint EXCEPT !.script = script, !.dry_run = dry_run,
                                            !.confirm = confirm, !.base = exists,
                                            !.files = files, !.pc = "main"]

NextMaint ==
    \/ MaintMain
    \/ MaintLoop
    \/ MaintRead
    \/ MaintToParquet
    \/ MaintReplace
    \/ MaintExcept

SpecMaint == InitMaint /\ [][NextMaint]_vars

(***************************************************************************)
(* Properties.                                                             *)
(***************************************************************************)
IsTargetPath(q) == q.name = "b3_stocks.parquet"
IsTmpPath(q) == q.name = "b3_stocks.parquet.tmp"

\* the images of a group's rows that pass both magic checks
ValidImages(rows) ==
    {img \in WriterImages(rows) : ReadHead4(img) = Magic /\ ReadTail4(img) = Magic}

\* the bytes at q are a whole file this run wrote for the partition of q and validated
IsPublishedNewFile(q) ==
    \E g \in 1..cur :
        /\ q = LocalPathOf(cfg.out_dir, cfg.s3_prefix, groups[g].dt)
        /\ fs[q] \in ValidImages(groups[g].rows)

\* C1: at every point of a run, a crash included, every partition target
\* path is absent, or holds the whole file an earlier run left there, or
\* holds the whole validated file this run wrote for it; anything else
\* (a truncated or half-written file) sits at a .tmp path only.
C1_AtomicPublish ==
    \A q \in DOMAIN fs :
        /\ IsTargetPath(q) \/ IsTmpPath(q)
        /\ IsTargetPath(q) => fs[q] = PriorFile \/ IsPublishedNewFile(q)

\* the run died while write_table was half way through the temp file, beside
\* the file an earlier run had published
C1_Witness ==
    /\ pc = "crashed"
    /\ cur > 0
    /\ HasFile(fs, CurTmp)
    /\ 0 < Len(fs[CurTmp])
    /\ Len(fs[CurTmp]) < Len(wimg)
    /\ HasFile(fs, CurPath)
    /\ fs[CurPath] = PriorFile

TmpWritten == cur > 0 /\ HasFile(fs, CurTmp) /\ fs[CurTmp] = wimg
BadHead == ReadHead4(fs[CurTmp]) # Magic
BadTail == ReadTail4(fs[CurTmp]) # Magic

\* C2: when the first 4 or the last 4 bytes of the freshly written temp file
\* are not PAR1, the step that checks them raises parquet-magic-missing or
\* parquet-footer-magic-missing and leaves every file as it was; the rename
\* is reached only with both markers in place.
C2_BadMagicNeverPublished ==
    /\ [](pc \in {"replace"} => TmpWritten /\ ~BadHead /\ ~BadTail)
    /\ [][ /\ (pc = "check_magic" /\ BadHead /\ pc' # "crashed")
                => /\ pc' = "raised"
                   /\ err' = Error("RuntimeError", "parquet-magic-missing")
                   /\ fs' = fs
           /\ (pc = "check_footer" /\ BadTail /\ pc' # "crashed")
                => /\ pc' = "raised"
                   /\ err' = Error("RuntimeError", "parquet-footer-magic-missing")
                   /\ fs' = fs
           /\ (pc = "raised" /\ err.msg \in {"parquet-magic-missing",
                                            "parquet-footer-magic-missing"})
                => fs' = fs ]_vars

\* the footer check refused a temp file whose header was fine, and the file
\* an earlier run had published is still at the target
C2_Witness ==
    /\ pc = "raised"
    /\ err = Error("RuntimeError", "parquet-footer-magic-missing")
    /\ TmpWritten
    /\ ~BadHead
    /\ BadTail
    /\ HasFile(fs, CurPath)
    /\ fs[CurPath] = PriorFile

(***************************************************************************)
(* Properties of _to_tidy, stated on the source frame df and the result    *)
(* tidy of SpecTidy.                                                       *)
(***************************************************************************)
Returned8 == pc = "tidy_returned" /\ ~Empty(df) /\ tidy.raised = ""

\* the UTC instant of source row i with no offset attached: the wall clock
\* less the offset for an aware index, the wall clock itself for a naive one
UtcInstant(i) ==
    IF df.index[i].k = "null" THEN Null
    ELSE Ts(df.index[i].v - (IF df.tz.aware THEN df.tz.off ELSE 0))

\* the source row an output row comes from: the output keeps source row
\* order, with the same number of output rows for every source row
SourceRowOf(r) == ((r - 1) \div (Len(tidy.data) \div Len(df.index))) + 1

\* C3: every output row carries as trade_date the UTC instant of its source
\* row with no offset attached (10:00 at UTC-3 becomes 13:00), a naive
\* source timestamp unchanged, for flat and for multi-ticker sources.
C3_TimestampsToUTC ==
    Returned8 =>
        /\ Len(tidy.data) >= Len(df.index)
        /\ \A r \in 1..Len(tidy.data) : tidy.data[r][1] = UtcInstant(SourceRowOf(r))

\* C4: for every non-empty source frame the call returns a frame whose
\* columns are exactly the 8 canonical ones, each once, in order.
C4_CanonicalColumns ==
    (pc = "tidy_returned" /\ ~Empty(df)) =>
        /\ tidy.raised = ""
        /\ tidy.columns = [p \in 1..Len(expected) |-> <<expected[p]>>]

\* the source cells that hold a volume: the cells of every column one of
\* whose labels normalises to "volume"
SourceVolumes ==
    { df.data[i][j] : i \in 1..Len(df.index),
                      j \in {c \in 1..Len(df.columns) :
                               \E l \in Range(df.columns[c]) : IsVolumeLabel(l)} }

\* the number a source volume cell stands for, in tenths; none for a
\* missing or unparseable cell
IsNumber(c) == c.k \in {"num", "int"} \/ (c.k = "str" /\ c.s \in {"100", "1.5", "-7"})
TenthsOf(c) ==
    CASE c.k = "num" -> c.v
      [] c.k = "int" -> 10 * c.v
      [] c.s = "100" -> 1000
      [] c.s = "1.5" -> 15
      [] OTHER -> -70
IsNonFinite(c) == c.k = "inf" \/ (c.k = "str" /\ c.s = "inf")

\* n is x tenths truncated toward zero
IsTruncationOf(n, x) == 10 * n <= x + 9 /\ x - 9 <= 10 * n /\ (x >= 0 => 10 * n <= x)
                        /\ (x <= 0 => 10 * n >= x)

C6_SwapInvariant ==
    (pc = "tidy_returned" /\ ~Empty(df) /\ IsMulti(df)) =>
        tidy = ToTidy([df EXCEPT !.columns = SwapLevel(df.columns)], tickers)

\* C8: a flat frame gives one output row per source row, with the source
\* row's index timestamp as trade_date and the first requested ticker
\* (UNKNOWN when none was requested) as ticker.
C8_FlatRowPerSourceRow ==
    (Returned8 /\ ~IsMulti(df)) =>
        /\ Len(tidy.data) = Len(df.index)
        /\ \A r \in 1..Len(tidy.data) :
              /\ tidy.data[r][1] = UtcInstant(r)
              /\ tidy.data[r][2] = Str(IF Len(tickers) > 0 THEN tickers[1] ELSE "UNKNOWN")

(***************************************************************************)
(* Properties of ingest's partition loop (Spec).                           *)
(***************************************************************************)
\* the output rows with a parseable timestamp, and the days they fall on
DatedRows == {i \in 1..Len(tidy.data) : tidy.data[i][1].k = "ts"}
TidyDays == {DayOf(tidy.data[i][1].v) : i \in DatedRows}
RowsOfDay(d) ==
    SelectSeq(tidy.data, LAMBDA r : r[1].k = "ts" /\ DayOf(r[1].v) = d)

RECURSIVE SumRows(_)
SumRows(l) == IF l = <<>> THEN 0 ELSE Head(l).rows + SumRows(Tail(l))

Completed == pc = "done" /\ ~Empty(df) /\ ~Empty(tidy)

\* C7: a completed run has written exactly one partition file per distinct
\* UTC day of the normalized rows; the file of a day holds exactly the rows
\* of that day, in order; the files' row counts sum to the number of rows
\* less the rows without a parseable timestamp.
C7_OneFilePerDay ==
    Completed =>
        /\ processed = Cardinality(TidyDays)
        /\ Len(log) = Cardinality(TidyDays)
        /\ {log[i].path : i \in 1..Len(log)}
             = {LocalPathOf(cfg.out_dir, cfg.s3_prefix, d) : d \in TidyDays}
        /\ \A d \in TidyDays :
              /\ cfg.write_local =>
                    LET q == LocalPathOf(cfg.out_dir, cfg.s3_prefix, d)
                    IN HasFile(fs, q) /\ RowsOf(fs[q]) = RowsOfDay(d)
              /\ cfg.upload_to_s3 =>
                    LET k == KeyOf(cfg.s3_prefix, d)
                    IN HasFile(remote, k) /\ RowsOf(remote[k]) = RowsOfDay(d)
        /\ \A q \in DOMAIN fs :
              (IsTargetPath(q) /\ fs[q] # PriorFile) =>
                 \E d \in TidyDays : q = LocalPathOf(cfg.out_dir, cfg.s3_prefix, d)
        /\ DOMAIN remote = {KeyOf(cfg.s3_prefix, d) : d \in TidyDays}
             \/ ~cfg.upload_to_s3
        /\ SumRows(log) = Len(tidy.data) - Cardinality({i \in 1..Len(tidy.data) :
                                                          tidy.data[i][1].k = "null"})

\* a completed run over rows of two days, two rows each, written and uploaded
C7_Witness ==
    /\ Completed
    /\ Cardinality(TidyDays) = 2
    /\ processed = 2
    /\ Len(tidy.data) = 4
    /\ cfg.write_local
    /\ cfg.upload_to_s3

(***************************************************************************)
(* Properties of _upload_s3_checked (SpecUpload).                          *)
(***************************************************************************)
IsProbe(c) == c.op = "head_object"
IsMismatch(c) == IsProbe(c) /\ c.exc = "" /\ c.len # up.size

\* every transfer so far completed and every head probe so far reported a
\* length other than the local size
OnlyMismatches ==
    \A i \in 1..Len(calls) : calls[i].exc = "" /\ (IsProbe(calls[i]) => IsMismatch(calls[i]))

UploadFailed == Error("RuntimeError", "upload_failed: s3://" \o up.bucket \o "/" \o up.key)

\* C9: while every head probe reports a length other than the local size
\* the call never returns; with the transfers completing it goes through
\* exactly RETRIES attempts, one transfer and one probe each, and then
\* raises upload_failed naming the bucket and the key.
C9_MismatchExhaustsRetries ==
    /\ (\A i \in 1..Len(calls) : IsProbe(calls[i]) => ~(calls[i].exc = "" /\ calls[i].len = up.size))
          => pc # "uploaded"
    /\ OnlyMismatches =>
          /\ pc # "uploaded"
          /\ up.attempt <= RETRIES
          /\ pc = "raised" =>
                /\ err = UploadFailed
                /\ up.attempt = RETRIES
                /\ Len(calls) = 2 * RETRIES
                /\ \A a \in 1..RETRIES :
                      /\ calls[2 * a - 1].op = "upload_file" /\ calls[2 * a - 1].attempt = a
                      /\ IsMismatch(calls[2 * a]) /\ calls[2 * a].attempt = a

\* three attempts, each a completed transfer and a mismatching probe, then
\* the fatal error
C9_Witness ==
    /\ pc = "raised"
    /\ OnlyMismatches
    /\ Len(calls) = 2 * RETRIES
    /\ err = UploadFailed
    /\ up.bucket = "b3-bucket"

\* C10: the call has returned only if the last two calls, both of the
\* current attempt, are a transfer that completed and a head probe after it
\* that reported the local file's size.
C10_SuccessNeedsVerifiedAttempt ==
    pc = "uploaded" =>
        /\ Len(calls) >= 2
        /\ LET t == calls[Len(calls) - 1]
               h == calls[Len(calls)]
           IN /\ t.op = "upload_file" /\ t.exc = "" /\ t.attempt = up.attempt
              /\ h.op = "head_object" /\ h.exc = "" /\ h.attempt = up.attempt
              /\ h.len = Len(fs[up.local])
        /\ up.size = Len(fs[up.local])
        /\ HasFile(remote, up.key) /\ remote[up.key] = fs[up.local]

\* the call returned on its second attempt, after a first one that failed
C10_Witness ==
    /\ pc = "uploaded"
    /\ up.attempt = 2
    /\ Len(calls) >= 3
    /\ calls[Len(calls)].len = up.size
    /\ calls[Len(calls)].attempt = 2

IsDenied(c) == c.exc = "ClientError" /\ c.code \in {"403", "AccessDenied"}

AccessDeniedError ==
    Error("RuntimeError", "s3-access-denied: check credentials and bucket policy")

\* C11: a transfer or a head probe that fails with code 403 or AccessDenied
\* ends the call at once with the access-denied error, in whatever attempt:
\* the step that gets the answer raises without sleeping, and no call on
\* the store follows it.
C11_AccessDeniedFailsAtOnce ==
    /\ [](\A i \in 1..Len(calls) :
            IsDenied(calls[i]) =>
               /\ i = Len(calls)
               /\ pc = "raised"
               /\ err = AccessDeniedError
               /\ calls[i].attempt = up.attempt)
    /\ [][ (Len(calls') = Len(calls) + 1 /\ IsDenied(calls'[Len(calls')]))
              => /\ pc' = "raised"
                 /\ err' = AccessDeniedError
                 /\ slept' = slept
                 /\ up' = up ]_vars
    /\ [][ pc = "raised" => calls' = calls /\ slept' = slept ]_vars

\* the head probe of the second attempt was denied: the call raised
\* having slept after the first attempt only
C11_Witness ==
    /\ pc = "raised"
    /\ err = AccessDeniedError
    /\ up.attempt = 2
    /\ Len(calls) >= 3
    /\ calls[Len(calls)].op = "head_object"
    /\ IsDenied(calls[Len(calls)])
    /\ slept = 1

(***************************************************************************)
(* Properties of _download_s3_checked (SpecDownload).                      *)
(***************************************************************************)
DownloadTmp == DownloadTmpOf(down.local)

\* what the local target holds, <<>> standing for no file
TargetOf(files) == IF HasFile(files, down.local) THEN <<files[down.local]>> ELSE <<>>

\* C12: the rename is reached only with the whole object at the temp path
\* and, when the probe reported a length, a temp file of that length; with
\* no reported length the download goes on to the rename unverified; the
\* local target holds the earlier file or the whole object, never a part
\* of it or a file of another size than the one reported; only the rename
\* changes the target, so a failed download leaves it as it was.
C12_DownloadPublishesVerified ==
    /\ [](pc = "dl_replace" =>
            /\ HasFile(fs, DownloadTmp)
            /\ fs[DownloadTmp] = remote[down.key]
            /\ down.expected # NoneSize => Len(fs[DownloadTmp]) = down.expected)
    /\ [](HasFile(fs, down.local) =>
            \/ fs[down.local] = PriorFile
            \/ /\ pc = "downloaded"
               /\ fs[down.local] = remote[down.key]
               /\ down.expected # NoneSize => Len(fs[down.local]) = down.expected)
    /\ [][ (pc = "verify" /\ down.expected = NoneSize) => pc' = "dl_replace" ]_vars
    /\ [][ TargetOf(fs') # TargetOf(fs) => (pc = "dl_replace" /\ pc' = "downloaded") ]_vars
    /\ [](pc = "raised" =>
            /\ err = Error("RuntimeError",
                           "download_failed: s3://" \o down.bucket \o "/" \o down.key)
            /\ HasFile(fs, down.local) => fs[down.local] = PriorFile)

\* the probe reported no length, the second attempt's transfer completed
\* and the object replaced the earlier file at the target
C12_Witness ==
    /\ pc = "downloaded"
    /\ down.expected = NoneSize
    /\ down.attempt = 2
    /\ HasFile(fs, down.local)
    /\ fs[down.local] = remote[down.key]
    /\ ~HasFile(fs, DownloadTmp)

(***************************************************************************)
(* Properties of the command (SpecMain).                                   *)
(***************************************************************************)
IsNoCredentials(c) == c.exc = "NoCredentialsError"

\* C13: a transfer that fails for want of credentials is the last call the
\* upload makes on the store: the upload raises at once, and the command
\* ends with exit status 5.
C13_NoCredentialsIsFatal ==
    \A i \in 1..Len(calls) :
        IsNoCredentials(calls[i]) =>
           /\ i = Len(calls)
           /\ pc \in {"raised", "exited"}
           /\ pc = "exited" => exit = 5

(***************************************************************************)
(* Properties of a run of ingest as a whole (Spec).                        *)
(***************************************************************************)
\* nothing of partition g has been written or uploaded by this run
Untouched(g) ==
    LET q == LocalPathOf(cfg.out_dir, cfg.s3_prefix, groups[g].dt)
    IN /\ HasFile(fs, q) => fs[q] = PriorFile
       /\ HasFile(fs, TmpPathOf(q)) => fs[TmpPathOf(q)] = LeftoverTmp
       /\ ~HasFile(remote, KeyOf(cfg.s3_prefix, groups[g].dt))
       /\ \A i \in 1..Len(log) : log[i].path # q

\* C14: a failure in the serialization, the magic validation or the upload
\* of a partition ends the run there: the exception leaves ingest (it is
\* never recorded while the run goes on), the partitions before it are the
\* only ones processed, and no partition after it is written or uploaded.
C14_AbortOnFirstFailure ==
    /\ [](err # NoError => pc = "raised")
    /\ []((pc = "raised" /\ cur > 0) =>
            /\ processed = cur - 1
            /\ \A g \in (cur + 1)..Len(groups) : Untouched(g))
    /\ [][ pc = "raised" => UNCHANGED vars ]_vars

\* the upload of the first of two partitions failed for good: the second
\* partition has not been touched
C14_Witness ==
    /\ pc = "raised"
    /\ Len(groups) = 2
    /\ cur = 1
    /\ err.msg = "upload_failed: s3://b3-bucket/raw/dt=2026-01-16/b3_stocks.parquet"
    /\ HasFile(remote, CurKey)
    /\ Untouched(2)

\* a table with no rows or no columns
IsEmptyTable(f) == Len(f.index) = 0 \/ Len(f.columns) = 0

\* the run works on an empty source table or an empty normalization result
NothingToWrite ==
    \/ IsEmptyTable(df)
    \/ pc \notin {"ingest", "normalize"} /\ tidy.raised = "" /\ Len(tidy.data) = 0

\* C15: with an empty source table, or no rows after normalization, ingest
\* returns normally (unless the download itself failed) having processed
\* no partition, written no file, temp files included, and called the
\* store not once.
C15_EmptyIsNoError ==
    /\ []((NothingToWrite /\ pc = "done") =>
            /\ err = NoError
            /\ processed = 0
            /\ groups = <<>>
            /\ log = <<>>
            /\ remote = NoFiles
            /\ calls = <<>>
            /\ fs \in InitialFiles)
    /\ [][ (pc = "ingest" /\ IsEmptyTable(df) /\ err' = NoError) => pc' = "done" ]_vars
    /\ [][ NothingToWrite =>
              /\ fs' = fs
              /\ remote' = remote
              /\ calls' = calls
              /\ processed' = processed ]_vars

\* an upload-enabled run over an empty table returned, leaving the files
\* of an earlier run as they were
C15_Witness ==
    /\ pc = "done"
    /\ IsEmptyTable(df)
    /\ err = NoError
    /\ cfg.upload_to_s3
    /\ cfg.s3_bucket # ""
    /\ fs # NoFiles
    /\ processed = 0

(***************************************************************************)
(* Properties of concurrent writers (SpecRace).                            *)
(***************************************************************************)
\* the target holds a whole validated file of run r
HoldsFileOf(r) == HasFile(fs, RaceTarget) /\ fs[RaceTarget] \in ValidImages(RaceRows(r))

RaceOver == \A r \in Runs : race[r].pc \in {"returned", "raised"}

\* C16: under any interleaving of two runs of the same partition the target
\* holds, whenever it exists, the earlier file or a whole validated file of
\* one of the runs; and once both runs are over and one has renamed, it
\* holds the whole file of a run that renamed.
C16_ConcurrentWritersPublishWhole ==
    /\ HasFile(fs, RaceTarget) =>
          fs[RaceTarget] = PriorFile \/ \E r \in Runs : HoldsFileOf(r)
    /\ (RaceOver /\ \E r \in Runs : race[r].pc = "returned") =>
          \E r \in Runs : race[r].pc = "returned" /\ HoldsFileOf(r)

\* the flags the command line forbids together
FlagsConflict(a) == DateConflict(a) \/ ModeConflict(a)

\* no download, no file written, no upload
NoIngestion ==
    /\ tidy = NotCalled
    /\ fs = NoFiles
    /\ remote = NoFiles
    /\ calls = <<>>

\* C17: a command line with conflicting flags never gets to ingest, and it
\* ends with exit code 2 with nothing downloaded, written or uploaded.
C17_ConflictingFlagsExit2 ==
    FlagsConflict(args) =>
        /\ pc \in {"main", "exited"}
        /\ NoIngestion
        /\ pc = "exited" => exit = 2

\* the command ended with status 0 after ingest wrote at least one partition
Succeeded == exit = 0 /\ ~Empty(df) /\ ~Empty(tidy)

\* the run asked for no upload: --local, or no flag and S3_BUCKET unset
LocalOnly(a) == a.local \/ (~a.s3_only /\ ~a.both /\ a.bucket = "")

LocalOf(d) == LocalPathOf(cfg.out_dir, cfg.s3_prefix, d)
RemoteOf(d) == KeyOf(cfg.s3_prefix, d)

\* what C18 says of every mode but for the local copy of --s3-only
DestinationsButS3OnlyCopy ==
    /\ (~FlagsConflict(args) /\ LocalOnly(args)) => (remote = NoFiles /\ calls = <<>>)
    /\ (Succeeded /\ ~args.s3_only) =>
           \A d \in TidyDays : HasFile(fs, LocalOf(d)) /\ RowsOf(fs[LocalOf(d)]) = RowsOfDay(d)
    /\ (Succeeded /\ ~LocalOnly(args)) =>
           \A d \in TidyDays :
              HasFile(remote, RemoteOf(d)) /\ RowsOf(remote[RemoteOf(d)]) = RowsOfDay(d)

DateAliases == {"dt", "date", "data_pregao", "trade_date"}
TickerAliases == {"ticker", "acao", "acao_negociada"}

Parsed == rd.pc \in {"parsed", "filtered"}

\* the path has a part key=value
HasPart(p, k, v) == \E i \in 1..Len(p) : p[i] = Part(k, v)

\* the dict maps the key to the value
Maps(d, k, v) == k \in DOMAIN d /\ d[k] = v

\* the aliases of the date and those of the ticker come out under one key
\* name each
OneNameEach(d) ==
    /\ Cardinality(DOMAIN d \cap DateAliases) <= 1
    /\ Cardinality(DOMAIN d \cap TickerAliases) <= 1
    /\ DOMAIN d \subseteq DateAliases \cup TickerAliases

\* C19: the dict returned for a path with the parts trade_date=2026-01-16
\* and acao_negociada=VALE3.SA maps trade_date to 2026-01-16 and
\* acao_negociada to VALE3.SA; and in every dict returned the date aliases
\* come out under one key name and the ticker aliases under one key name.
C19_ParsePartitionsFromPath ==
    Parsed =>
        \A i \in 1..Len(rd.files) :
           /\ (HasPart(rd.files[i], "trade_date", "2026-01-16")
                 /\ HasPart(rd.files[i], "acao_negociada", "VALE3.SA"))
                => /\ Maps(rd.parts[i], "trade_date", "2026-01-16")
                   /\ Maps(rd.parts[i], "acao_negociada", "VALE3.SA")
           /\ OneNameEach(rd.parts[i])

Filtered == rd.pc = "filtered"

\* the values a file's path gives for the date and for the ticker
DateValue(p) == DictGet(parse_partitions_from_path(p), "data_pregao")
TickerValue(p) == DictGet(parse_partitions_from_path(p), "acao_negociada")

\* the filters of a call by their meaning, whatever the keyword
DatesGiven == IF "trade_dates" \in DOMAIN rd.kwargs THEN SomeList(rd.kwargs["trade_dates"])
              ELSE ListArg(rd.kwargs, "data_pregaos")

\* what C20 says a file must satisfy to be kept; a bound is applied to the
\* files that have a date value
Keeps(p) ==
    /\ SetOf(DatesGiven) # {} => (DateValue(p).some /\ DateValue(p).v \in SetOf(DatesGiven))
    /\ "acoes" \in DOMAIN rd.kwargs =>
          (TickerValue(p).some /\ TickerValue(p).v \in SetOf(ListArg(rd.kwargs, "acoes")))
    /\ ("start" \in DOMAIN rd.kwargs /\ Truthy(DateValue(p))) =>
          ~StrLess(DateValue(p).v, rd.kwargs["start"][1])
    /\ ("end" \in DOMAIN rd.kwargs /\ Truthy(DateValue(p))) =>
          ~StrLess(rd.kwargs["end"][1], DateValue(p).v)

\* the call of test_filter_files_by_date_and_acao
IsTestCall ==
    /\ rd.files = <<TestFile1, TestFile2>>
    /\ SetOf(DatesGiven) = {"2026-01-16"}
    /\ DOMAIN rd.kwargs \ {"trade_dates", "data_pregaos"} = {"acoes"}

\* C20: filter_files returns, in order, exactly the files that pass every
\* filter given; and for the files dated 2026-01-16/VALE3.SA and
\* 2026-01-17/PETR4.SA, filtered by date 2026-01-16 and ticker VALE3.SA, it
\* returns exactly the first.
C20_FilterFiles ==
    Filtered =>
        /\ rd.err = "" => rd.res = SelectSeq(rd.files, Keeps)
        /\ IsTestCall => (rd.err = "" /\ rd.res = <<TestFile1>>)

(***************************************************************************)
(* Properties of _detect_ticker_level (SpecTidy).                          *)
(***************************************************************************)
\* how many of the requested tickers, upper-cased, are among the upper-cased
\* distinct values of a level (1 or 2 in the model's column pairs)
Overlap(cols, tks, level) ==
    Cardinality({Upper(t) : t \in Range(tks)} \cap {Upper(c[level]) : c \in Range(cols)})

\* C22: for a two-level frame the level detected is level 1 when level 1
\* holds more of the requested tickers than level 0, and level 0 otherwise
\* (more in level 0, as many in both, none in either).
C22_DetectsLevelWithMoreTickers ==
    (pc = "tidy_returned" /\ ~Empty(df) /\ IsMulti(df)) =>
        DetectTickerLevel(df.columns, tickers)
          = IF Overlap(df.columns, tickers, 2) > Overlap(df.columns, tickers, 1) THEN 1 ELSE 0

(***************************************************************************)
(* Properties of the retry loops (SpecTransfer).                           *)
(***************************************************************************)
DownloadFailed ==
    Error("RuntimeError", "download_failed: s3://" \o down.bucket \o "/" \o down.key)

\* 1 + 2 + ... + n
SumTo(n) == (n * (n + 1)) \div 2

Uploading == pc \in {"upload_file", "head_object", "uploaded"}
Downloading == pc \in {"download_file", "verify", "dl_replace", "downloaded"}
TransferOver == pc \in {"uploaded", "downloaded", "raised"}

TransferCalls == {i \in 1..Len(calls) : calls[i].op = "upload_file"}

\* C23: neither function goes beyond attempt RETRIES or makes more than
\* RETRIES transfer calls; in attempt k it has slept 1 + ... + (k - 1)
\* seconds, going from attempt k to k + 1 costs k seconds of sleep; a call
\* that raises either met access-denied on upload or went through all
\* RETRIES attempts, slept after each, and raises upload_failed /
\* download_failed with the bucket and the key; and every call ends.
C23_BoundedRetryWithLinearBackoff ==
    /\ [](/\ up.attempt <= RETRIES
          /\ down.attempt <= RETRIES
          /\ Cardinality(TransferCalls) <= RETRIES
          /\ Uploading => slept = SumTo(up.attempt - 1)
          /\ Downloading => slept = SumTo(down.attempt - 1)
          /\ (pc = "raised" /\ up.attempt > 0) =>
                \/ err = AccessDeniedError /\ slept = SumTo(up.attempt - 1)
                \/ err = UploadFailed /\ up.attempt = RETRIES /\ slept = SumTo(RETRIES)
          /\ (pc = "raised" /\ down.attempt > 0) =>
                err = DownloadFailed /\ down.attempt = RETRIES /\ slept = SumTo(RETRIES))
    /\ [][ (up.attempt' # up.attempt =>
                 (up.attempt' = up.attempt + 1 /\ slept' = slept + up.attempt))
            /\ (down.attempt' # down.attempt =>
                 (down.attempt' = down.attempt + 1 /\ slept' = slept + down.attempt)) ]_vars
    /\ <>TransferOver

\* a download whose three attempts failed: 1 + 2 + 3 seconds slept, then
\* download_failed
C23_Witness ==
    /\ pc = "raised"
    /\ down.attempt = RETRIES
    /\ slept = 6
    /\ err = DownloadFailed

(***************************************************************************)
(* Properties of the order of ingest's partition loop (Spec).              *)
(***************************************************************************)
\* partition g is written (where the mode keeps the file) and uploaded
\* (where the mode uploads)
PartitionDone(g) ==
    LET q == LocalPathOf(cfg.out_dir, cfg.s3_prefix, groups[g].dt)
        k == KeyOf(cfg.s3_prefix, groups[g].dt)
    IN /\ cfg.write_local => (HasFile(fs, q) /\ fs[q] \in ValidImages(groups[g].rows))
       /\ cfg.upload_to_s3 => (HasFile(remote, k) /\ remote[k] \in ValidImages(groups[g].rows))

InUpload == pc \in {"upload", "upload_file", "head_object", "uploaded"}

\* C24: the loop takes the partitions in ascending key order, one at a
\* time: whenever it stands at a partition, every earlier one is written
\* and, in an uploading mode, uploaded, and no later one has been touched;
\* the upload of a partition runs only with the validated file renamed onto
\* the target and no temp file left, and what goes to the bucket is that
\* file under the partition's key.
C24_PartitionsInOrderOneAtATime ==
    /\ [](\A g, h \in 1..Len(groups) : g < h => groups[g].dt < groups[h].dt)
    /\ [](/\ processed \in {cur - 1, cur} \/ cur = 0
          /\ cur = 0 => processed = 0
          /\ \A g \in 1..processed : PartitionDone(g)
          /\ \A g \in (cur + 1)..Len(groups) : Untouched(g))
    /\ [](InUpload =>
            /\ HasFile(fs, CurPath)
            /\ fs[CurPath] \in ValidImages(groups[cur].rows)
            /\ ~HasFile(fs, CurTmp)
            /\ processed = cur - 1)
    /\ [][ remote' # remote =>
              /\ pc = "upload_file"
              /\ remote' = WriteFile(remote, CurKey, fs[CurPath]) ]_vars

\* the second of two partitions is being uploaded: the first is on disk and
\* in the bucket, the second is on disk and not yet in the bucket
C24_Witness ==
    /\ pc = "upload_file"
    /\ Len(groups) = 2
    /\ cur = 2
    /\ cfg.write_local
    /\ PartitionDone(1)
    /\ HasFile(fs, CurPath)
    /\ ~HasFile(remote, CurKey)

(***************************************************************************)
(* Properties of the local files around an upload (Spec).                  *)
(***************************************************************************)
\* the exception that ended the run came out of _upload_s3_checked
UploadRaised == pc = "raised" /\ up.attempt > 0

\* the last call on the store was a head probe that reported the local size
LastProbeVerified ==
    /\ Len(calls) > 0
    /\ IsProbe(calls[Len(calls)])
    /\ calls[Len(calls)].exc = ""
    /\ calls[Len(calls)].len = up.size

\* C25: when the upload of a partition fails, the file published for it is
\* still at its target, in every mode; a step removes a partition file only
\* in s3-only mode, only the file of the current partition, and only after
\* a verified upload of it; and a step that changes the filesystem changes
\* nothing but the current partition's target and temp file.
C25_SyncFailureKeepsLocalFile ==
    /\ [](UploadRaised =>
            (HasFile(fs, CurPath) /\ fs[CurPath] \in ValidImages(groups[cur].rows)))
    /\ [][ UploadRaised => fs' = fs ]_vars
    /\ [][ (\E q \in DOMAIN fs : IsTargetPath(q) /\ ~HasFile(fs', q)) =>
              /\ ~cfg.write_local
              /\ pc = "uploaded"
              /\ LastProbeVerified
              /\ HasFile(remote, CurKey) /\ remote[CurKey] = fs[CurPath]
              /\ fs' = RemoveFile(fs, CurPath) ]_vars
    /\ [][ fs' # fs =>
              /\ cur > 0
              /\ cur' = cur
              /\ \A q \in (DOMAIN fs \cup DOMAIN fs') \ {CurPath, CurTmp} :
                    HasFile(fs, q) /\ HasFile(fs', q) /\ fs'[q] = fs[q] ]_vars

\* s3-only: the first partition was uploaded and its local file removed, the
\* upload of the second failed for good and its local file is in place
C25_Witness ==
    /\ UploadRaised
    /\ ~cfg.write_local
    /\ cur = 2
    /\ err = UploadFailed
    /\ HasFile(fs, CurPath)
    /\ fs[CurPath] \in ValidImages(groups[cur].rows)
    /\ ~HasFile(fs, LocalPathOf(cfg.out_dir, cfg.s3_prefix, groups[1].dt))

(***************************************************************************)
(* Properties of the command's exit status (SpecMain).                     *)
(***************************************************************************)
\* the exit codes the command documents
ExitCodes == {0, 2, 3, 4, 5, 99}

\* C26: whatever the flags and whatever ingest does, the command ends with
\* one of the documented exit codes.
C26_ExitCodeDocumented == exit # NoExit => exit \in ExitCodes

(***************************************************************************)
(* Properties of the partition paths (SpecPrefix).                         *)
(***************************************************************************)
\* a prefix without its leading and trailing slashes
TrimSlashes(prefix) ==
    CASE prefix \in {"raw", "raw/", "raw//", "/raw", "/raw/"} -> "raw"
      [] prefix \in {"", "/"} -> ""

\* <prefix>/dt=<key>, relative
RelativeDir(prefix, d) ==
    IF TrimSlashes(prefix) = "" THEN "dt=" \o DayStr(d)
    ELSE TrimSlashes(prefix) \o "/dt=" \o DayStr(d)

\* C27: every file of the run, temp file included, is in the directory
\* <out_dir>/<prefix>/dt=<key> of one of its partitions, under the name
\* b3_stocks.parquet or its temp name, and every object of the bucket has
\* the key <prefix>/dt=<key>/b3_stocks.parquet of one of its partitions.
C27_PathsUnderOutputRoot ==
    /\ \A q \in DOMAIN fs :
          /\ IsTargetPath(q) \/ IsTmpPath(q)
          /\ \E g \in 1..Len(groups) :
                q.dir = cfg.out_dir \o "/" \o RelativeDir(cfg.s3_prefix, groups[g].dt)
    /\ \A k \in DOMAIN remote :
          \E g \in 1..Len(groups) :
             k = RelativeDir(cfg.s3_prefix, groups[g].dt) \o "/b3_stocks.parquet"

\* the file process_file is working on, and its temp file
MaintFile == mnt.files[mnt.i]
MaintTmp == MaintTmpOf(MaintFile)

\* a file process_file would rewrite: one it can read and, for
\* fix_refined_columns, one with a column of the mapping
WouldRewrite(script, file) ==
    /\ file.ok
    /\ script = "fix" => ToRename(file.cols, DEFAULT_MAPPING) # {}

\* process_file returns in this step
MaintReturns == Len(mnt'.ret) = Len(mnt.ret) + 1
MaintReturned == mnt'.ret[Len(mnt'.ret)]

\* a rewrite fails: the except clause of process_file runs
MaintRewriteFails == mnt.pc = "except" /\ MaintReturns

\* what C21 says of process_file and of main, apart from the temp file of a
\* failed rewrite
C21_DryRunConfirmAndRename ==
    /\ (MaintReturns /\ mnt.dry)
         => (/\ fs' = fs
             /\ MaintReturned = WouldRewrite(mnt.script, fs[MaintFile]))
    /\ (MaintReturns /\ ~mnt.dry /\ MaintReturned)
         => (/\ mnt.pc = "replace"
             /\ HasFile(fs, MaintTmp)
             /\ fs[MaintTmp] = Rewritten(mnt)
             /\ fs' = ReplaceFile(fs, MaintTmp, MaintFile)
             /\ fs'[MaintFile] = Rewritten(mnt)
             /\ ~HasFile(fs', MaintTmp))
    /\ fs' # fs => (mnt.confirm /\ ~mnt.dry_run)
    /\ (\E q \in Range(mnt.files) : fs'[q] # fs[q])
         => (mnt.pc = "replace" /\ MaintReturns /\ MaintReturned)
    /\ MaintRewriteFails
         => (/\ ~MaintReturned
             /\ fs'[MaintFile] = mnt.df
             /\ fs'[MaintFile] = fs[MaintFile])

\* C21: in both maintenance scripts process_file with dry_run=True returns
\* True for a file that would be rewritten and leaves the files unchanged;
\* with dry_run=False it returns True once it has replaced the file by a
\* rename of its temp file; main modifies files only under --confirm without
\* --dry-run; a failed rewrite leaves the original file unchanged and
\* removes the temp file.
C21_DryRunConfirmAndCleanup ==
    [][ /\ C21_DryRunConfirmAndRename
        /\ (MaintRewriteFails => ~HasFile(fs', MaintTmp)) ]_vars

\* C21, with the removal of the temp file as the best effort it is: after a
\* failed rewrite the temp file is still there only if its unlink raised.
C21_DryRunConfirmAndBestEffortCleanup ==
    [][ /\ C21_DryRunConfirmAndRename
        /\ (MaintRewriteFails
             => (HasFile(fs', MaintTmp) => MaintTmp \in mnt'.unlink_failed)) ]_vars

\* compress_refined --confirm over two gzip files: the rewrite of the first
\* failed and the unlink of its temp file raised, the second was replaced by
\* its snappy copy
C21_Witness ==
    /\ mnt.pc = "returned"
    /\ mnt.script = "compress"
    /\ mnt.confirm /\ ~mnt.dry_run
    /\ mnt.ret = <<FALSE, TRUE>>
    /\ fs[mnt.files[1]] = ParquetFile(<<"a", "b">>, "gzip")
    /\ mnt.unlink_failed = {MaintTmpOf(mnt.files[1])}
    /\ HasFile(fs, MaintTmpOf(mnt.files[1]))
    /\ fs[mnt.files[2]] = ParquetFile(<<"a", "b">>, "snappy")
    /\ ~HasFile(fs, MaintTmpOf(mnt.files[2]))

====
